---------------------------- MODULE Spec2Model ----------------------------
(***************************************************************************)
(* The acquisition pipeline of pydatacq: LiveData (pydatacq/live_data.py)  *)
(* driven by the LiveSDS producer (examples/live_sds.py), which reads an   *)
(* oscilloscope through SDS.async_getwave (examples/sds.py).               *)
(*                                                                         *)
(* asyncio runs the tasks of LiveData._loop on one thread: a task runs     *)
(* from one suspension point to the next without interruption.  Every      *)
(* action below is one such run: it starts where a task was suspended (an  *)
(* instrument request in flight, a sleep, a put on a full queue, a get on  *)
(* an empty queue, a handler in progress) and ends at the task's next      *)
(* suspension point or at its end.                                         *)
(*                                                                         *)
(* The parts of the producer the pipeline takes as one step each are       *)
(* specified on their own: the channel scheduler called by itself          *)
(* (SchedSpec), the pacer of SDS.async_getwave on a clock (PacerSpec), the *)
(* calls of the instrument link on a byte stream (LinkSpec:                *)
(* examples/siglent.py, pydatacq/siglent.py, SDS.async_query_rawwave) and  *)
(* the decoding of a raw block (DecodeSpec).  The monitor is specified on  *)
(* its own with what it prints (MonitorSpec), and the order in which the   *)
(* event loop runs the tasks of a producer that never suspends in get_data *)
(* (examples/live_fm_sine.py) in LoopSpec, and of one whose get_data may   *)
(* return None in NoneSpec.  GenSpec follows the channel generator         *)
(* statement by statement, the empty collection included, and RestartSpec  *)
(* is the pipeline of an object that is started more than once.  Each      *)
(* leaves the variables of the others as they are after construction.      *)
(***************************************************************************)
EXTENDS Integers, Sequences, FiniteSets, TLC

\* Bounds of the model.
MaxFrames == 3      \* acquisitions (get_data calls) one run may start
MaxCap == 2         \* largest queue_maxsize that is tried
MaxNext == 12       \* next() calls one run of the scheduler alone makes
MaxCalls == 3       \* async_getwave calls one run of the pacer makes
MaxConns == 2       \* connections one run of the instrument link opens
MaxBody == 4        \* bytes the instrument sends after a waveform header
MaxLen == 2         \* samples of a raw block drawn from SampleBytes
MaxShows == 4       \* _show_fps calls one run of the monitor alone makes
MaxCount == 2       \* frames counted between two _show_fps calls
MaxGets == 4        \* get_data calls one run under the event loop makes
MaxSpins == 3       \* tests of its `while` one next() is followed through
MaxRuns == 2        \* calls of start() on one object

\* Python's None, as a channel value (channels are 0-based naturals).
None == -1

\* The producer's `data` before get_data has returned anything.
NoData == [id |-> 0, ch |-> None, parts |-> {}]

\* Where the producer is suspended with an instrument request in flight.
InFlight == {"tdiv", "wave", "vdiv", "offs"}

\* The instrument answers a frame is built from (sds.py:167-201).
AllParts == {"tdiv", "wave", "vdiv", "offs"}

\* What one instrument request can end with: the answer, a connect, write
\* or read failure (asyncio raises OSError and the like: LinkError), or an
\* answer that does not parse (ValueError, IncompleteReadError:
\* ProtocolError).
QueryOutcomes == {"ok", "LinkError", "ProtocolError"}

\* The constructor's `channels` argument (live_sds.py:22): one integer, or
\* a collection given here by its iteration order.
ChannelArgs ==
    { [kind |-> "int", n |-> 1, seq |-> <<>>],
      [kind |-> "set", n |-> 0, seq |-> <<0>>],
      [kind |-> "set", n |-> 0, seq |-> <<0, 1>>],
      [kind |-> "set", n |-> 0, seq |-> <<1, 0>>] }

VARIABLES
    \* configuration, fixed by __init__
    queue_maxsize,  \* LiveData.__queue_maxsize
    timestamp,      \* LiveData.__timestamp
    fps,            \* LiveData.__fps
    yields,         \* LiveData._yields
    channelsArg,    \* the `channels` argument of LiveSDS.__init__
    \* the pipeline
    main,           \* start(): "Idle", "Running", "Stopped" (returned), "Failed" (raised)
    _go_on,         \* the instance attribute self._go_on
    queue,          \* the asyncio.Queue of _loop
    error,          \* the first exception gather() has seen, "none" if none
    \* the producer task
    ppc,            \* where _produce_data is suspended
    data,           \* the frame being acquired, then the local `data`
    gen,            \* position of the generator self._next
    wavetime,       \* SDS._wavetime is not None
    \* the consumer task and the monitor task
    cpc,            \* where _consume_data is suspended
    updates,        \* LiveData.__updates
    mpc,            \* where _show_fps_timer is suspended
    \* history
    yielded,        \* the values next(self._next) has returned
    requests,       \* number of instrument requests issued
    acquired,       \* number of frames get_data has returned
    linkFailed,     \* an instrument request has failed
    enqueued,       \* the frames put on the queue, in order
    delivered,      \* the frames the handler was invoked with, in order
    stopInRead,     \* stop() ended the run while an instrument request was in flight
    \* the pacer of SDS.async_getwave (sds.py:160-186)
    clock,          \* what time() returns
    gpc,            \* where async_getwave is suspended
    timebase,       \* the local `timebase`, in clock ticks per division
    now,            \* the local `now`
    sleep,          \* the local `sleep`, 0 when the call did not wait
    _wavetime,      \* SDS._wavetime, None until the first call has set it
    before,         \* history: SDS._wavetime as the last decision read it
    issued,         \* history: instant and sweep time T of every waveform request
    \* the instrument link
    op,             \* the method that is being called
    lpc,            \* where the call is suspended, or how it ended
    conns,          \* history: every connection opened, by whom, open or closed
    mine,           \* the place in conns of the connection this call opened, 0 if none
    written,        \* what this call has written on its connection
    stream,         \* the bytes the instrument sends on it before it closes
    rpos,           \* how many of them the call has read
    reads,          \* history: the sizes readexactly was called with
    header,         \* the local `header`
    wave,           \* the local `wave` (`data` in async_query)
    exc,            \* the exception the call has met, "none" if none
    \* the decoder of SDS.async_getwave (sds.py:189-203)
    raw,            \* the bytes async_query_rawwave returned
    calib,          \* the instrument's vertical settings
    dpc,            \* how far the decoding is
    w,              \* the local `w`
    v,              \* the local `v`, in 1/25 V
    Tmax,           \* the local `Tmax` of async_getwave_x
    t_axis,         \* the local `t` of async_getwave_x, as fractions
    \* the monitor's console
    shows,          \* history: per _show_fps call, the counter it found and
                    \* the fps it printed (None: nothing printed)
    \* the event loop
    ready,          \* the tasks the loop will run, in the order it will run them
    owed,           \* history: the tasks that were ready at the producer's last
                    \* get_data call and have not run since
    seen,           \* history: the frame at the head of the queue at that call
                    \* (0: none) and whether the consumer was ready then
    \* the generator _next_channel, statement by statement
    genpc,          \* where a next() in progress is, "idle" between two calls
    spins,          \* history: the `while` tests the next() in progress has made
    \* the caller's calls of start()
    starts          \* history: at each start(), the flag, the frames in the old
                    \* queue and held by the old producer, and the numbers of
                    \* frames begun, enqueued and delivered before it

config == <<queue_maxsize, timestamp, fps, yields, channelsArg>>
prodLoopVars == <<ppc, data, gen, yielded, requests, error>>
prodOtherVars == <<wavetime, acquired, linkFailed>>
consVars == <<cpc, updates, delivered>>
pacerVars == <<clock, gpc, timebase, now, sleep, _wavetime, before, issued>>
linkVars == <<op, lpc, conns, mine, written, stream, rpos, reads, header, wave,
              exc>>
decodeVars == <<raw, calib, dpc, w, v, Tmax, t_axis>>
\* What a step of the pipeline leaves alone.
monitorVars == <<shows>>
loopVars == <<ready, owed, seen>>
genVars == <<genpc, spins>>
runVars == <<starts>>
others == <<pacerVars, linkVars, decodeVars, monitorVars, loopVars, genVars,
            runVars>>
\* What a step of the scheduler, the pacer, the link or the decoder alone
\* leaves alone of the pipeline.
pipeVars == <<queue_maxsize, timestamp, fps, yields, main, queue, error, ppc,
              data, wavetime, cpc, updates, mpc, requests, acquired,
              linkFailed, enqueued, delivered, stopInRead>>
schedVars == <<channelsArg, _go_on, gen, yielded>>
vars == <<queue_maxsize, timestamp, fps, yields, channelsArg, main, _go_on,
          queue, error, ppc, data, gen, wavetime, cpc, updates, mpc,
          yielded, requests, acquired, linkFailed, enqueued, delivered,
          stopInRead, pacerVars, linkVars, decodeVars, monitorVars, loopVars,
          genVars, runVars>>

---------------------------------------------------------------------------
\* LiveSDS.__init__: an integer becomes the one-element set.
channels ==
    IF channelsArg.kind = "int" THEN <<channelsArg.n>> ELSE channelsArg.seq

\* The class attribute LiveData._go_on, which no code assigns: stop() and
\* start() assign the instance attribute.
ClassGoOn == TRUE

\* super()._go_on in LiveSDS._next_channel: super() looks the name up in the
\* classes after LiveSDS and never in the instance.
SuperGoOn == ClassGoOn

\* A generator that starts every pass at the last channel.
NextChannelFromLast(g) ==
    [kind |-> "yield", val |-> channels[Len(channels)], gen |-> Len(channels)]

\* A generator made anew for every get_data: it never gets past the first
\* channel.
NextChannelRestart(g) == [kind |-> "yield", val |-> channels[1], gen |-> 1]

\* One next() of the generator _next_channel.  gen is the number of channels
\* the current pass of the for loop has yielded (0 before the first next()),
\* -1 once None has been yielded.
NextChannel(g) ==
    IF g = -1
    THEN [kind |-> "stop", val |-> None, gen |-> -1]
    ELSE IF g >= 1 /\ g < Len(channels)
    THEN [kind |-> "yield", val |-> channels[g + 1], gen |-> g + 1]
    ELSE IF SuperGoOn
    THEN [kind |-> "yield", val |-> channels[1], gen |-> 1]
    ELSE [kind |-> "yield", val |-> None, gen |-> -1]

\* A queue that never has room.
QueueAlwaysFull(q) == TRUE

\* A queue without a bound (maxsize=0).
QueueNeverFull(q) == FALSE

\* A queue that lets one item too many in.
QueueFullOffByOne(q) == Len(q) > queue_maxsize

\* asyncio.Queue.full() for maxsize > 0.
QueueFull(q) == Len(q) >= queue_maxsize

\* A queue that takes its newest item first.
DequeueNewest(q) == [item |-> q[Len(q)], rest |-> SubSeq(q, 1, Len(q) - 1)]

\* A get that leaves the item in the queue.
DequeuePeek(q) == [item |-> Head(q), rest |-> q]

\* asyncio.Queue.get_nowait() of a non-empty queue (a deque's popleft): the
\* item get() returns and the queue it leaves.
Dequeue(q) == [item |-> Head(q), rest |-> Tail(q)]

\* gather() records the first exception only.
FirstError(e) == IF error = "none" THEN e ELSE error

\* A failure that is swallowed.
NeverRaises(r) == FALSE

\* No instrument call is wrapped in try/except: a failure is raised.
Raises(r) == r # "ok"

\* The answer of a request becomes part of the frame.
AddPart(d, p, r) ==
    IF r = "ok" THEN [d EXCEPT !.parts = @ \cup {p}] ELSE d

---------------------------------------------------------------------------
\* SDS._wavetime = None (sds.py:155); no call of async_getwave yet.
PacerIdle ==
    /\ clock = 0
    /\ gpc = "idle"
    /\ timebase = 1
    /\ now = 0
    /\ sleep = 0
    /\ _wavetime = None
    /\ before = None
    /\ issued = <<>>

\* Siglent.__init__ opens nothing.
LinkIdle ==
    /\ op = "none"
    /\ lpc = "idle"
    /\ conns = <<>>
    /\ mine = 0
    /\ written = <<>>
    /\ stream = <<>>
    /\ rpos = 0
    /\ reads = <<>>
    /\ header = <<>>
    /\ wave = <<>>
    /\ exc = "none"

\* No block read yet.
DecodeIdle ==
    /\ raw = <<>>
    /\ calib = [tdiv |-> 1, vdiv |-> 1, offs |-> 0, att |-> 1]
    /\ dpc = "raw"
    /\ w = <<>>
    /\ v = <<>>
    /\ Tmax = 0
    /\ t_axis = <<>>

\* Nothing shown yet.
MonitorIdle == shows = <<>>

\* No loop yet.
LoopIdle ==
    /\ ready = <<>>
    /\ owed = {}
    /\ seen = [id |-> 0, ready |-> FALSE]

\* No next() in progress.
GenIdle ==
    /\ genpc = "idle"
    /\ spins = 0

\* start() not called yet.
RunIdle == starts = <<>>

\* A LiveSDS as __init__ leaves it: start() not called yet.
Constructed ==
    /\ main = "Idle"
    /\ _go_on = ClassGoOn
    /\ queue = <<>>
    /\ error = "none"
    /\ ppc = "idle"
    /\ data = NoData
    /\ gen = 0
    /\ wavetime = FALSE
    /\ cpc = "idle"
    /\ updates = 0
    /\ mpc = "idle"
    /\ yielded = <<>>
    /\ requests = 0
    /\ acquired = 0
    /\ linkFailed = FALSE
    /\ enqueued = <<>>
    /\ delivered = <<>>
    /\ stopInRead = FALSE

\* The defaults of LiveData.__init__.
DefaultConfig ==
    /\ queue_maxsize = 1
    /\ timestamp = FALSE
    /\ fps = FALSE
    /\ yields = TRUE

Init ==
    /\ PacerIdle /\ LinkIdle /\ DecodeIdle /\ MonitorIdle
    /\ LoopIdle /\ GenIdle /\ RunIdle
    /\ queue_maxsize \in 1..MaxCap
    /\ timestamp \in BOOLEAN
    /\ fps \in BOOLEAN
    /\ yields \in BOOLEAN
    /\ channelsArg \in ChannelArgs
    /\ Constructed

\* A producer that asks again when a request has failed.
ProducerRetry(e) ==
    /\ ppc' = ppc
    /\ error' = error
    /\ requests' = requests + 1
    /\ UNCHANGED <<data, gen, yielded>>

\* An exception leaves _produce_data: the task ends with it.
ProducerRaise(e) ==
    /\ ppc' = "failed"
    /\ error' = FirstError(e)
    /\ UNCHANGED <<data, gen, yielded, requests>>

\* get_data to its first suspension: next(self._next), then
\* SDS.async_getwave issues TIME_DIV? (live_sds.py:91-94, sds.py:167-168).
GetData ==
    LET r == NextChannel(gen) IN
    /\ Len(yielded) < MaxFrames
    /\ IF r.kind = "stop"
       THEN \* next() on the finished generator
            ProducerRaise("RuntimeError")
       ELSE IF r.val = None
       THEN \* get_data returns None: nothing is put
            /\ gen' = r.gen
            /\ yielded' = Append(yielded, None)
            /\ data' = NoData
            /\ requests' = requests
            /\ IF yields
               THEN \* the loop goes round at once; next() raises
                    ppc' = "failed" /\ error' = FirstError("RuntimeError")
               ELSE ppc' = "yield" /\ error' = error
       ELSE /\ gen' = r.gen
            /\ yielded' = Append(yielded, r.val)
            /\ data' = [id |-> Len(yielded) + 1, ch |-> r.val, parts |-> {}]
            /\ requests' = requests + 1
            /\ ppc' = "tdiv"
            /\ error' = error

\* A producer loop that does not look at the flag (`while True`).
ProduceLoopAnyway(flag) == GetData

\* _produce_data from its `while self._go_on` to the first suspension of
\* get_data.
ProduceLoop(flag) ==
    IF ~flag
    THEN /\ ppc' = "done"
         /\ UNCHANGED <<data, gen, yielded, requests, error>>
    ELSE GetData

\* A put that drops the frame when the queue is full (put_nowait with
\* QueueFull swallowed) and goes on.
PutDataDropping(d) ==
    IF timestamp
    THEN /\ ProducerRaise("TypeError")
         /\ UNCHANGED <<queue, enqueued>>
    ELSE /\ queue' = IF QueueFull(queue) THEN queue ELSE Append(queue, d)
         /\ enqueued' = IF QueueFull(queue) THEN enqueued ELSE Append(enqueued, d)
         /\ ProduceLoop(_go_on)

\* _produce_data from `if data is not None` on: the put, then the loop.
PutData(d) ==
    IF timestamp
    THEN \* queue.put(asctime(), data): put() takes one item
         /\ ProducerRaise("TypeError")
         /\ UNCHANGED <<queue, enqueued>>
    ELSE IF QueueFull(queue)
    THEN /\ ppc' = "put"
         /\ data' = d
         /\ UNCHANGED <<gen, yielded, requests, error, queue, enqueued>>
    ELSE /\ queue' = Append(queue, d)
         /\ enqueued' = Append(enqueued, d)
         /\ ProduceLoop(_go_on)

\* A consumer that takes all the queue holds and starts a handler call for
\* every frame.
ConsumeLoopBatch(flag, q) ==
    IF ~flag
    THEN cpc' = "done" /\ queue' = q /\ UNCHANGED <<updates, delivered>>
    ELSE IF q = <<>>
    THEN cpc' = "get" /\ queue' = q /\ UNCHANGED <<updates, delivered>>
    ELSE /\ queue' = <<>>
         /\ updates' = updates + Len(q)
         /\ delivered' = delivered \o q
         /\ cpc' = "cb"

\* A consumer that counts a frame once its handler has returned.
ConsumeLoopCountAfter(flag, q) ==
    /\ updates' = updates + (IF cpc = "cb" THEN 1 ELSE 0)
    /\ IF ~flag
       THEN cpc' = "done" /\ queue' = q /\ UNCHANGED delivered
       ELSE IF q = <<>>
       THEN cpc' = "get" /\ queue' = q /\ UNCHANGED delivered
       ELSE /\ queue' = Dequeue(q).rest
            /\ delivered' = Append(delivered, Dequeue(q).item)
            /\ cpc' = "cb"

\* _consume_data from its `while self._go_on` to its next suspension.
ConsumeLoop(flag, q) ==
    IF ~flag
    THEN cpc' = "done" /\ queue' = q /\ UNCHANGED <<updates, delivered>>
    ELSE IF q = <<>>
    THEN cpc' = "get" /\ queue' = q /\ UNCHANGED <<updates, delivered>>
    ELSE /\ queue' = Dequeue(q).rest
         /\ updates' = updates + 1
         /\ delivered' = Append(delivered, Dequeue(q).item)
         /\ cpc' = "cb"

\* start(): asyncio.run(self._loop()) creates the queue and the tasks, and
\* each task runs to its first suspension.
Start ==
    /\ main = "Idle"
    /\ main' = "Running"
    /\ _go_on' = TRUE
    /\ queue' = <<>>
    /\ ProduceLoop(TRUE)
    /\ cpc' = "get"
    /\ mpc' = IF fps THEN "show" ELSE "off"
    /\ UNCHANGED <<config, others, prodOtherVars, updates, enqueued, delivered, stopInRead>>

\* stop()
Stop ==
    /\ _go_on' = FALSE
    /\ stopInRead' = IF main = "Running" /\ _go_on
                     THEN ppc \in InFlight
                     ELSE stopInRead
    /\ UNCHANGED <<config, others, main, queue, prodLoopVars, prodOtherVars, consVars,
                   mpc, enqueued>>


---------------------------------------------------------------------------
\* The producer task: one action per suspension point of _produce_data.

\* TIME_DIV? answers (sds.py:168-169); then the pacer decides (171-186):
\* it sleeps only if a waveform was requested before and less than 4*T has
\* passed since; then the waveform is requested (189).
TdivReturn ==
    /\ main = "Running" /\ ppc = "tdiv"
    /\ \E r \in QueryOutcomes :
         IF Raises(r)
         THEN /\ ProducerRaise(r)
              /\ linkFailed' = TRUE
              /\ UNCHANGED <<wavetime, acquired>>
         ELSE /\ \E tooSoon \in (IF wavetime THEN BOOLEAN ELSE {FALSE}) :
                   /\ ppc' = IF tooSoon THEN "sleep" ELSE "wave"
                   /\ requests' = IF tooSoon THEN requests ELSE requests + 1
              /\ data' = AddPart(data, "tdiv", r)
              /\ wavetime' = TRUE
              /\ UNCHANGED <<gen, yielded, error, acquired, linkFailed>>
    /\ UNCHANGED <<config, others, main, _go_on, queue, consVars, mpc, enqueued, stopInRead>>

\* asyncio.sleep(sleep) of the pacer returns (sds.py:185); the waveform is
\* requested.
SleepReturn ==
    /\ main = "Running" /\ ppc = "sleep"
    /\ ppc' = "wave"
    /\ requests' = requests + 1
    /\ UNCHANGED <<config, others, main, _go_on, queue, data, gen, yielded, error,
                   prodOtherVars, consVars, mpc, enqueued, stopInRead>>

\* An instrument request that is neither the first nor the last of the cycle
\* answers: <CH>:WF? DAT2 (sds.py:189), then <CH>:VDIV? (194-196).
MidReturn(at, next) ==
    /\ main = "Running" /\ ppc = at
    /\ \E r \in QueryOutcomes :
         IF Raises(r)
         THEN /\ ProducerRaise(r)
              /\ linkFailed' = TRUE
         ELSE /\ ppc' = next
              /\ requests' = requests + 1
              /\ data' = AddPart(data, at, r)
              /\ UNCHANGED <<gen, yielded, error, linkFailed>>
    /\ UNCHANGED <<config, others, main, _go_on, queue, wavetime, acquired, consVars,
                   mpc, enqueued, stopInRead>>

\* An acquisition that does not ask for <CH>:VDIV?.
WaveReturnSkipsVdiv == MidReturn("wave", "offs")

WaveReturn == MidReturn("wave", "vdiv")

VdivReturn == MidReturn("vdiv", "offs")

\* <CH>:OFFSET? answers (sds.py:199-201): the frame is complete and get_data
\* returns it; a producer declared non-yielding sleeps 0 first (139-141),
\* otherwise the frame is put at once.
OffsReturn ==
    /\ main = "Running" /\ ppc = "offs"
    /\ \E r \in QueryOutcomes :
         IF Raises(r)
         THEN /\ ProducerRaise(r)
              /\ linkFailed' = TRUE
              /\ UNCHANGED <<acquired, queue, enqueued>>
         ELSE /\ acquired' = acquired + 1
              /\ linkFailed' = linkFailed
              /\ IF ~yields
                 THEN /\ ppc' = "yield"
                      /\ data' = AddPart(data, "offs", r)
                      /\ UNCHANGED <<gen, yielded, requests, error, queue, enqueued>>
                 ELSE PutData(AddPart(data, "offs", r))
    /\ UNCHANGED <<config, others, main, _go_on, wavetime, consVars, mpc, stopInRead>>

\* asyncio.sleep(0) returns (live_data.py:141).
YieldReturn ==
    /\ main = "Running" /\ ppc = "yield"
    /\ IF data = NoData
       THEN ProduceLoop(_go_on) /\ UNCHANGED <<queue, enqueued>>
       ELSE PutData(data)
    /\ UNCHANGED <<config, others, main, _go_on, prodOtherVars, consVars, mpc, stopInRead>>

\* The put that waited on a full queue is woken by a get (live_data.py:148).
PutResume ==
    /\ main = "Running" /\ ppc = "put"
    /\ ~QueueFull(queue)
    /\ PutData(data)
    /\ UNCHANGED <<config, others, main, _go_on, prodOtherVars, consVars, mpc, stopInRead>>

---------------------------------------------------------------------------
\* The consumer task.

\* The get that waited on an empty queue is woken by a put; the handler is
\* invoked with the frame (live_data.py:157-162).
ConsumerWake ==
    /\ main = "Running" /\ cpc = "get"
    /\ queue # <<>>
    /\ ConsumeLoop(TRUE, queue)
    /\ UNCHANGED <<config, others, main, _go_on, prodLoopVars, prodOtherVars, mpc,
                   enqueued, stopInRead>>

\* A consumer that goes on to its next get whatever the flag.
HandlerReturnIgnoresStop ==
    /\ main = "Running" /\ cpc = "cb"
    /\ ConsumeLoop(TRUE, queue)
    /\ UNCHANGED <<config, others, main, _go_on, prodLoopVars, prodOtherVars, mpc,
                   enqueued, stopInRead>>

\* The handler returns; the loop goes round (live_data.py:156).
HandlerReturn ==
    /\ main = "Running" /\ cpc = "cb"
    /\ ConsumeLoop(_go_on, queue)
    /\ UNCHANGED <<config, others, main, _go_on, prodLoopVars, prodOtherVars, mpc,
                   enqueued, stopInRead>>

\* The handler raises: nothing in _consume_data catches it.
HandlerRaise ==
    /\ main = "Running" /\ cpc = "cb"
    /\ cpc' = "failed"
    /\ error' = FirstError("HandlerError")
    /\ UNCHANGED <<config, others, main, _go_on, queue, ppc, data, gen, yielded,
                   requests, prodOtherVars, updates, delivered, mpc, enqueued,
                   stopInRead>>

---------------------------------------------------------------------------
\* The monitor task (fps=True).

\* A monitor that empties the queue when it reports.
ShowFpsDrains ==
    /\ main = "Running" /\ mpc = "show"
    /\ updates' = 0
    /\ mpc' = "sleep"
    /\ queue' = <<>>
    /\ UNCHANGED <<config, others, main, _go_on, prodLoopVars, prodOtherVars,
                   cpc, delivered, enqueued, stopInRead>>

\* A report that leaves the counter as it found it.
ShowFpsNoReset ==
    /\ main = "Running" /\ mpc = "show"
    /\ mpc' = "sleep"
    /\ UNCHANGED <<config, others, main, _go_on, queue, prodLoopVars, prodOtherVars,
                   cpc, updates, delivered, enqueued, stopInRead>>

\* _show_fps, started by the gather of _show_fps_timer (live_data.py:166-170).
ShowFps ==
    /\ main = "Running" /\ mpc = "show"
    /\ updates' = 0
    /\ mpc' = "sleep"
    /\ UNCHANGED <<config, others, main, _go_on, queue, prodLoopVars, prodOtherVars,
                   cpc, delivered, enqueued, stopInRead>>

\* asyncio.sleep(interval) returns; the loop goes round (live_data.py:175-184).
MonitorWake ==
    /\ main = "Running" /\ mpc = "sleep"
    /\ mpc' = IF _go_on THEN "show" ELSE "done"
    /\ UNCHANGED <<config, others, main, _go_on, queue, prodLoopVars, prodOtherVars,
                   consVars, enqueued, stopInRead>>

---------------------------------------------------------------------------
\* _loop's `await asyncio.gather(*tasks)` and asyncio.run.

Terminated(pc) == pc \in {"done", "failed", "cancelled", "off"}

\* A wait that ends with the first task to return.
AnyTaskDone == ppc = "done" \/ cpc = "done" \/ mpc = "done"

\* gather() has its result once every task has returned.
AllTasksDone == ppc = "done" /\ cpc = "done" /\ mpc \in {"done", "off"}

\* A run that leaves the pending tasks as they are.
NoCancel(pc) == pc

\* asyncio.run cancels a task that is still pending and waits for it.
Cancel(pc) == IF Terminated(pc) THEN pc ELSE "cancelled"

\* gather() returns, _loop returns, start() returns.
LoopReturn ==
    /\ main = "Running"
    /\ error = "none"
    /\ AllTasksDone
    /\ main' = "Stopped"
    /\ UNCHANGED <<config, others, _go_on, queue, prodLoopVars, prodOtherVars, consVars,
                   mpc, enqueued, stopInRead>>

\* gather() raises the first exception of a task into _loop; asyncio.run
\* cancels the tasks left and start() raises the exception.
LoopRaise ==
    /\ main = "Running"
    /\ error # "none"
    /\ main' = "Failed"
    /\ ppc' = Cancel(ppc)
    /\ cpc' = Cancel(cpc)
    /\ mpc' = Cancel(mpc)
    /\ UNCHANGED <<config, others, _go_on, queue, error, data, gen, yielded, requests,
                   prodOtherVars, updates, delivered, enqueued, stopInRead>>

---------------------------------------------------------------------------
Next ==
    \/ Start
    \/ Stop
    \/ TdivReturn
    \/ SleepReturn
    \/ WaveReturn
    \/ VdivReturn
    \/ OffsReturn
    \/ YieldReturn
    \/ PutResume
    \/ ConsumerWake
    \/ HandlerReturn
    \/ HandlerRaise
    \/ ShowFps
    \/ MonitorWake
    \/ LoopReturn
    \/ LoopRaise

Spec == Init /\ [][Next]_vars

\* The steps of the tasks and of _loop once start() has been called: every
\* action but the caller's start() and stop().
TaskStep ==
    \/ TdivReturn \/ SleepReturn \/ WaveReturn \/ VdivReturn \/ OffsReturn
    \/ YieldReturn \/ PutResume
    \/ ConsumerWake \/ HandlerReturn \/ HandlerRaise
    \/ ShowFps \/ MonitorWake
    \/ LoopReturn \/ LoopRaise

\* The event loop runs every task that can run; every instrument request,
\* sleep and handler call in flight ends.  Nothing makes the caller call
\* stop().
FairSpec ==
    /\ Spec
    /\ WF_vars(TdivReturn) /\ WF_vars(SleepReturn) /\ WF_vars(WaveReturn)
    /\ WF_vars(VdivReturn) /\ WF_vars(OffsReturn) /\ WF_vars(YieldReturn)
    /\ WF_vars(PutResume) /\ WF_vars(ConsumerWake)
    /\ WF_vars(HandlerReturn \/ HandlerRaise)
    /\ WF_vars(ShowFps) /\ WF_vars(MonitorWake)
    /\ WF_vars(LoopReturn) /\ WF_vars(LoopRaise)

---------------------------------------------------------------------------
\* The channel scheduler by itself: get_data's `ch = next(self._next)`
\* (live_sds.py:91) called again and again by a caller of its own, stop()
\* called at any time between two calls.

SchedInit ==
    /\ PacerIdle /\ LinkIdle /\ DecodeIdle /\ MonitorIdle
    /\ LoopIdle /\ GenIdle /\ RunIdle
    /\ DefaultConfig
    /\ channelsArg \in ChannelArgs
    /\ Constructed

\* next(self._next)
NextCall ==
    /\ main = "Idle"
    /\ Len(yielded) < MaxNext
    /\ LET r == NextChannel(gen) IN
         /\ r.kind = "yield"
         /\ gen' = r.gen
         /\ yielded' = Append(yielded, r.val)
    /\ UNCHANGED <<pipeVars, others, channelsArg, _go_on>>

SchedNext == NextCall \/ Stop

SchedSpec == SchedInit /\ [][SchedNext]_vars

---------------------------------------------------------------------------
\* The pacer of SDS.async_getwave (sds.py:160-189) on a clock: one producer
\* calls async_getwave again and again.  Time is in ticks; every request and
\* every pause between two calls takes one of Delays, the instrument
\* answers TIME_DIV? with one of Timebases, asyncio.sleep returns when the
\* time asked for has passed or one of Oversleep later.

\* SDS._divisions
Divisions == 14

Timebases == {1, 2}

Delays == {1, 28, 120}

Oversleep == {0, 1}

\* A pipeline that is not started, with the defaults.
PipelineIdle ==
    /\ DefaultConfig
    /\ channelsArg = [kind |-> "int", n |-> 1, seq |-> <<>>]
    /\ Constructed

PacerInit ==
    PipelineIdle /\ PacerIdle /\ LinkIdle /\ DecodeIdle /\ MonitorIdle
    /\ LoopIdle /\ GenIdle /\ RunIdle

\* T = timebase * self.divisions()
SweepTime(tb) == tb * Divisions

\* A pacer that waits for one sweep.
PacerWaitOneSweep(wt, t, T) ==
    IF wt # None /\ t - wt < T THEN T - (t - wt) ELSE 0

\* The time the pacer sleeps, 0 when it does not: wt is self._wavetime, t is
\* `now`, T the sweep time (sds.py:172-184).
PacerWait(wt, t, T) ==
    LET wait == T * 4
        passed == t - wt
    IN  IF wt # None /\ passed < wait THEN wait - passed ELSE 0

\* The instant at which the wait has ended.
WavetimeAfterWait(t, c) == c

\* self._wavetime = now: t is `now`, c the clock when the assignment is made.
NewWavetime(t, c) == t

\* async_getwave is called: TIME_DIV? is sent.
GetwaveCall ==
    /\ gpc = "idle"
    /\ Len(issued) < MaxCalls
    /\ gpc' = "tdiv"
    /\ UNCHANGED <<clock, timebase, now, sleep, _wavetime, before, issued>>
    /\ UNCHANGED <<pipeVars, schedVars, linkVars, decodeVars, monitorVars,
                   loopVars, genVars, runVars>>

\* TIME_DIV? answers; `now = time()`; the pacer decides: it sleeps, or it
\* sets _wavetime and the waveform is requested.
PacerDecide ==
    /\ gpc = "tdiv"
    /\ \E d \in Delays, tb \in Timebases :
         LET t == clock + d
             T == SweepTime(tb)
             s == PacerWait(_wavetime, t, T)
         IN  /\ clock' = t
             /\ timebase' = tb
             /\ now' = t
             /\ sleep' = s
             /\ before' = _wavetime
             /\ IF s > 0
                THEN /\ gpc' = "sleep"
                     /\ UNCHANGED <<_wavetime, issued>>
                ELSE /\ gpc' = "wave"
                     /\ _wavetime' = NewWavetime(t, t)
                     /\ issued' = Append(issued, [at |-> t, T |-> T])
    /\ UNCHANGED <<pipeVars, schedVars, linkVars, decodeVars, monitorVars,
                   loopVars, genVars, runVars>>

\* asyncio.sleep(sleep) returns; _wavetime is set and the waveform is
\* requested.
PacerWake ==
    /\ gpc = "sleep"
    /\ \E late \in Oversleep :
         LET c == clock + sleep + late IN
         /\ clock' = c
         /\ _wavetime' = NewWavetime(now, c)
         /\ issued' = Append(issued, [at |-> c, T |-> SweepTime(timebase)])
    /\ gpc' = "wave"
    /\ UNCHANGED <<timebase, now, sleep, before>>
    /\ UNCHANGED <<pipeVars, schedVars, linkVars, decodeVars, monitorVars,
                   loopVars, genVars, runVars>>

\* The waveform, VDIV? and OFFSET? have answered: async_getwave returns.
GetwaveReturn ==
    /\ gpc = "wave"
    /\ \E d \in Delays : clock' = clock + d
    /\ gpc' = "idle"
    /\ UNCHANGED <<timebase, now, sleep, _wavetime, before, issued>>
    /\ UNCHANGED <<pipeVars, schedVars, linkVars, decodeVars, monitorVars,
                   loopVars, genVars, runVars>>

PacerNext == GetwaveCall \/ PacerDecide \/ PacerWake \/ GetwaveReturn

PacerSpec == PacerInit /\ [][PacerNext]_vars

---------------------------------------------------------------------------
\* The instrument link, one call after the other: the queries and sends of
\* examples/siglent.py (the Siglent that SDS extends) and of
\* pydatacq/siglent.py, and SDS.async_query_rawwave.  A byte is a number
\* 0..255.  Every await of a call is one action; a connect, a write, a read
\* and a close can each fail (LinkError); a read that finds the connection
\* closed before its bytes, and a length that is no number, are
\* ProtocolError (IncompleteReadError, ValueError).

\* reader.readexactly(22)
HeaderSize == 22

\* reader.readexactly(2)
TrailerSize == 2

Queries ==
    {"examples.async_query", "pydatacq.async_query", "sds.async_query_rawwave"}

\* examples.send is asyncio.run(self.async_send(cmd)).
Sends ==
    {"examples.async_send", "examples.send", "pydatacq.async_send",
     "pydatacq.send"}

\* b'\n' in examples/siglent.py and sds.py, b_term = b'\r\n' in
\* pydatacq/siglent.py.
Terminator(o) ==
    IF o \in {"pydatacq.async_query", "pydatacq.async_send", "pydatacq.send"}
    THEN "CRLF"
    ELSE "LF"

LinkOutcomes == {"ok", "LinkError"}

\* "C1:WF DAT2,#9": what the instrument sends before the length.
Prefix == <<67, 49, 58, 87, 70, 32, 68, 65, 84, 50, 44, 35, 57>>

\* n < 100 as nine ASCII digits.
Digits9(n) ==
    [i \in 1..9 |-> IF i = 9 THEN 48 + (n % 10)
                    ELSE IF i = 8 THEN 48 + ((n \div 10) % 10)
                    ELSE 48]

\* The length fields an instrument may send: a length in nine digits,
\* "        2", "-00000001", "0000_0001", "00000000x", "0000__001".
LengthFields ==
    {Digits9(n) : n \in 0..MaxBody}
    \cup { <<32, 32, 32, 32, 32, 32, 32, 32, 50>>,
           <<45, 48, 48, 48, 48, 48, 48, 48, 49>>,
           <<48, 48, 48, 48, 95, 48, 48, 48, 49>>,
           <<48, 48, 48, 48, 48, 48, 48, 48, 120>>,
           <<48, 48, 48, 48, 95, 95, 48, 48, 49>> }

\* The bytes of a payload and a trailer: a line feed and another byte.
BodyBytes == {10, 200}

Bodies == UNION {[1..n -> BodyBytes] : n \in 0..MaxBody}

\* What the instrument sends in answer to <CH>:WF? DAT2 before it closes
\* the connection; it may close it within the header.
WaveAnswers ==
    {Prefix \o f \o b : f \in LengthFields, b \in Bodies}
    \cup {SubSeq(Prefix \o Digits9(1), 1, k) : k \in {0, 21}}

\* What it sends in answer to a text query: nothing, or "1\n".
TextAnswers == {<<>>, <<49, 10>>}

LinkInit ==
    PipelineIdle /\ PacerIdle /\ LinkIdle /\ DecodeIdle /\ MonitorIdle
    /\ LoopIdle /\ GenIdle /\ RunIdle

\* int(bytes), as Python reads it: white space around, a sign, digits with
\* single underscores between them.
IsSpace(b) == b \in {9, 10, 11, 12, 13, 32}

IsDigit(b) == b \in 48..57

RECURSIVE LStrip(_)
LStrip(bs) ==
    IF bs # <<>> /\ IsSpace(Head(bs)) THEN LStrip(Tail(bs)) ELSE bs

RECURSIVE RStrip(_)
RStrip(bs) ==
    IF bs # <<>> /\ IsSpace(bs[Len(bs)])
    THEN RStrip(SubSeq(bs, 1, Len(bs) - 1))
    ELSE bs

DigitsOk(bs) ==
    /\ bs # <<>>
    /\ IsDigit(bs[1])
    /\ IsDigit(bs[Len(bs)])
    /\ \A i \in DOMAIN bs : IsDigit(bs[i]) \/ (bs[i] = 95 /\ bs[i - 1] # 95)

RECURSIVE DigitsValue(_, _)
DigitsValue(bs, acc) ==
    IF bs = <<>> THEN acc
    ELSE IF Head(bs) = 95 THEN DigitsValue(Tail(bs), acc)
    ELSE DigitsValue(Tail(bs), acc * 10 + (Head(bs) - 48))

ParseInt(bs) ==
    LET t == RStrip(LStrip(bs))
        signed == t # <<>> /\ t[1] \in {43, 45}
        d == IF signed THEN Tail(t) ELSE t
    IN  IF DigitsOk(d)
        THEN [ok |-> TRUE,
              val |-> IF signed /\ t[1] = 45
                      THEN 0 - DigitsValue(d, 0)
                      ELSE DigitsValue(d, 0)]
        ELSE [ok |-> FALSE, val |-> 0]

\* The nine bytes before the last of the header.
LengthFieldOffByOne(h) ==
    SubSeq(h, 13, IF Len(h) < 21 THEN Len(h) ELSE 21)

\* header[13:22]
LengthField(h) ==
    SubSeq(h, 14, IF Len(h) < HeaderSize THEN Len(h) ELSE HeaderSize)

\* reader.read(n): the bytes that are there, at most n.
ReadUpTo(s, pos, n) ==
    [ok |-> TRUE,
     data |-> SubSeq(s, pos + 1, IF Len(s) < pos + n THEN Len(s) ELSE pos + n)]

\* reader.readexactly(n), n >= 0: the next n bytes, or IncompleteReadError
\* when the connection closes before them.
ReadExactly(s, pos, n) ==
    IF Len(s) - pos >= n
    THEN [ok |-> TRUE, data |-> SubSeq(s, pos + 1, pos + n)]
    ELSE [ok |-> FALSE, data |-> <<>>]

\* A close that leaves the connection open.
CloseLeavesOpen(cs, i) == cs

\* writer.close()
Close(cs, i) == [cs EXCEPT ![i].st = "closed"]

\* A call without try/finally.
NoFinally(o) == FALSE

\* The calls whose body is in try ... finally: writer.close().
HasFinally(o) == o \in Queries

\* An exception e is raised in the body of the call, its connection open.
RaiseInCall(e) ==
    /\ exc' = e
    /\ IF HasFinally(op)
       THEN \* finally: writer.close(); await writer.wait_closed()
            /\ conns' = Close(conns, mine)
            /\ lpc' = "closing"
       ELSE IF op = "pydatacq.send"
       THEN \* `with socket` closes the socket, `except:` prints the traceback
            /\ conns' = Close(conns, mine)
            /\ lpc' = "returned"
       ELSE \* async_send: nothing closes the connection
            /\ conns' = conns
            /\ lpc' = "raised"

\* A method is called: asyncio.open_connection (in pydatacq's send:
\* _sock.connect) is awaited.
LinkCall ==
    /\ lpc \in {"idle", "returned", "raised"}
    /\ Len(conns) < MaxConns
    /\ op' \in Queries \cup Sends
    /\ lpc' = "connect"
    /\ mine' = 0
    /\ written' = <<>>
    /\ stream' = <<>>
    /\ rpos' = 0
    /\ reads' = <<>>
    /\ header' = <<>>
    /\ wave' = <<>>
    /\ exc' = "none"
    /\ conns' = conns
    /\ UNCHANGED <<pipeVars, schedVars, pacerVars, decodeVars, monitorVars,
                   loopVars, genVars, runVars>>

\* The connect ends; the command is handed to the writer and drain()
\* (sendall) is awaited.
ConnectReturn ==
    /\ lpc = "connect"
    /\ \E r \in LinkOutcomes :
         IF r # "ok"
         THEN \* nothing was opened
              /\ exc' = r
              /\ lpc' = IF op = "pydatacq.send" THEN "returned" ELSE "raised"
              /\ UNCHANGED <<conns, mine>>
         ELSE /\ mine' = Len(conns) + 1
              /\ conns' = Append(conns, [by |-> op, st |-> "open"])
              /\ IF op = "pydatacq.async_send"
                 THEN \* bytes(cmd + self.b_term, 'ascii'): str + bytes
                      exc' = "TypeError" /\ lpc' = "raised"
                 ELSE exc' = exc /\ lpc' = "drain"
    /\ UNCHANGED <<op, written, stream, rpos, reads, header, wave>>
    /\ UNCHANGED <<pipeVars, schedVars, pacerVars, decodeVars, monitorVars,
                   loopVars, genVars, runVars>>

\* drain() (sendall) ends: a send closes its connection; a query reads, and
\* the instrument, which has the command, answers.
DrainReturn ==
    /\ lpc = "drain"
    /\ \E r \in LinkOutcomes :
         IF r # "ok"
         THEN RaiseInCall(r) /\ UNCHANGED <<written, stream>>
         ELSE /\ written' = <<"cmd", Terminator(op)>>
              /\ exc' = exc
              /\ IF op \in Sends
                 THEN /\ conns' = Close(conns, mine)
                      /\ lpc' = IF op = "pydatacq.send" THEN "returned"
                                ELSE "closing"
                      /\ stream' = stream
                 ELSE IF op = "sds.async_query_rawwave"
                 THEN /\ conns' = conns
                      /\ lpc' = "header"
                      /\ stream' \in WaveAnswers
                 ELSE /\ conns' = conns
                      /\ lpc' = "read"
                      /\ stream' \in TextAnswers
    /\ UNCHANGED <<op, mine, rpos, reads, header, wave>>
    /\ UNCHANGED <<pipeVars, schedVars, pacerVars, decodeVars, monitorVars,
                   loopVars, genVars, runVars>>

\* reader.read(size) of a text query ends.
ReadReturn ==
    /\ lpc = "read"
    /\ \E r \in LinkOutcomes :
         IF r # "ok"
         THEN RaiseInCall(r) /\ UNCHANGED <<wave, rpos>>
         ELSE /\ wave' = stream
              /\ rpos' = Len(stream)
              /\ exc' = exc
              /\ conns' = Close(conns, mine)
              /\ lpc' = "closing"
    /\ UNCHANGED <<op, mine, written, stream, reads, header>>
    /\ UNCHANGED <<pipeVars, schedVars, pacerVars, decodeVars, monitorVars,
                   loopVars, genVars, runVars>>

\* reader.readexactly(22) ends; size = int(header[13:22]).
HeaderReturn ==
    /\ lpc = "header"
    /\ reads' = Append(reads, HeaderSize)
    /\ \E r \in LinkOutcomes :
         LET h == ReadExactly(stream, rpos, HeaderSize) IN
         IF r # "ok"
         THEN RaiseInCall(r) /\ UNCHANGED <<header, rpos>>
         ELSE IF ~h.ok
         THEN RaiseInCall("ProtocolError") /\ UNCHANGED <<header, rpos>>
         ELSE /\ header' = h.data
              /\ rpos' = rpos + HeaderSize
              /\ IF ~ParseInt(LengthField(h.data)).ok
                 THEN RaiseInCall("ProtocolError")
                 ELSE lpc' = "payload" /\ UNCHANGED <<conns, exc>>
    /\ UNCHANGED <<op, mine, written, stream, wave>>
    /\ UNCHANGED <<pipeVars, schedVars, pacerVars, decodeVars, monitorVars,
                   loopVars, genVars, runVars>>

\* reader.readexactly(size) ends; a negative size is a ValueError.
PayloadReturn ==
    /\ lpc = "payload"
    /\ LET size == ParseInt(LengthField(header)).val IN
         /\ reads' = Append(reads, size)
         /\ \E r \in LinkOutcomes :
              IF size < 0
              THEN RaiseInCall("ProtocolError") /\ UNCHANGED <<wave, rpos>>
              ELSE IF r # "ok"
              THEN RaiseInCall(r) /\ UNCHANGED <<wave, rpos>>
              ELSE LET p == ReadExactly(stream, rpos, size) IN
                   IF ~p.ok
                   THEN RaiseInCall("ProtocolError") /\ UNCHANGED <<wave, rpos>>
                   ELSE /\ wave' = p.data
                        /\ rpos' = rpos + size
                        /\ lpc' = "trailer"
                        /\ UNCHANGED <<conns, exc>>
    /\ UNCHANGED <<op, mine, written, stream, header>>
    /\ UNCHANGED <<pipeVars, schedVars, pacerVars, decodeVars, monitorVars,
                   loopVars, genVars, runVars>>

\* reader.readexactly(2) ends; finally: writer.close().
TrailerReturn ==
    /\ lpc = "trailer"
    /\ reads' = Append(reads, TrailerSize)
    /\ \E r \in LinkOutcomes :
         LET t == ReadExactly(stream, rpos, TrailerSize) IN
         IF r # "ok"
         THEN RaiseInCall(r) /\ rpos' = rpos
         ELSE IF ~t.ok
         THEN RaiseInCall("ProtocolError") /\ rpos' = rpos
         ELSE /\ rpos' = rpos + TrailerSize
              /\ conns' = Close(conns, mine)
              /\ lpc' = "closing"
              /\ exc' = exc
    /\ UNCHANGED <<op, mine, written, stream, header, wave>>
    /\ UNCHANGED <<pipeVars, schedVars, pacerVars, decodeVars, monitorVars,
                   loopVars, genVars, runVars>>

\* writer.wait_closed() ends: the call returns, or raises what it has met.
CloseReturn ==
    /\ lpc = "closing"
    /\ \E r \in LinkOutcomes :
         /\ exc' = IF exc = "none" /\ r # "ok" THEN r ELSE exc
         /\ lpc' = IF exc' = "none" THEN "returned" ELSE "raised"
    /\ UNCHANGED <<op, conns, mine, written, stream, rpos, reads, header, wave>>
    /\ UNCHANGED <<pipeVars, schedVars, pacerVars, decodeVars, monitorVars,
                   loopVars, genVars, runVars>>

LinkNext ==
    \/ LinkCall
    \/ ConnectReturn
    \/ DrainReturn
    \/ ReadReturn
    \/ HeaderReturn
    \/ PayloadReturn
    \/ TrailerReturn
    \/ CloseReturn

LinkSpec == LinkInit /\ [][LinkNext]_vars

---------------------------------------------------------------------------
\* The decoder of SDS.async_getwave (sds.py:189-203): the raw block becomes
\* samples, the samples become voltages.  A byte is a number 0..255; the
\* instrument's settings are whole numbers of volts; arithmetic is exact, and
\* v holds 25 times the voltage, which keeps the division by 25 in integers.

SampleBytes == {0, 127, 128, 255}

\* Every block of one byte, and the blocks of up to MaxLen of SampleBytes.
RawBlocks ==
    {<<b>> : b \in 0..255} \cup UNION {[1..n -> SampleBytes] : n \in 0..MaxLen}

\* What TIME_DIV?, <CH>:VDIV?, <CH>:OFFSET? and <CH>:ATTENUATION? would
\* answer.
Calibrations ==
    [tdiv : Timebases, vdiv : {1, 2}, offs : {-1, 0, 1}, att : {1, 10}]

DecodeInit ==
    /\ PipelineIdle /\ PacerIdle /\ LinkIdle /\ MonitorIdle /\ LoopIdle /\ GenIdle /\ RunIdle
    /\ raw \in RawBlocks
    /\ calib \in Calibrations
    /\ dpc = "raw"
    /\ w = <<>>
    /\ v = <<>>
    /\ Tmax = 0
    /\ t_axis = <<>>

\* np.frombuffer(wave, dtype=np.int8): a byte read as two's complement.
FromBufferInt8(b) == ((b + 128) % 256) - 128

\* np.where(w > 127, w - 256, w)
WhereAbove127(x) == IF x > 127 THEN x - 256 ELSE x

\* A byte kept as it is (dtype=np.uint8 and no np.where).
AsUnsigned(b) == b

\* sds.py:190-191, for one byte.
ToSigned(b) == WhereAbove127(FromBufferInt8(b))

\* A conversion that forgets the offset.
VoltsNoOffset(x, vdiv, offs) == x * vdiv

\* 25 * (w * vdiv / 25 - offs), for one sample.
Volts25(x, vdiv, offs) == x * vdiv - 25 * offs

\* w = np.frombuffer(...); w = np.where(...)
FromBuffer ==
    /\ dpc = "raw"
    /\ w' = [k \in DOMAIN raw |-> ToSigned(raw[k])]
    /\ dpc' = "samples"
    /\ UNCHANGED <<raw, calib, v, Tmax, t_axis>>
    /\ UNCHANGED <<pipeVars, schedVars, pacerVars, linkVars, monitorVars,
                   loopVars, genVars, runVars>>

\* VDIV? and OFFSET? have answered; v = w * vdiv / 25 - offs; async_getwave
\* returns v, timebase * self._divisions to async_getwave_x.
ToVolts ==
    /\ dpc = "samples"
    /\ v' = [k \in DOMAIN w |-> Volts25(w[k], calib.vdiv, calib.offs)]
    /\ Tmax' = SweepTime(calib.tdiv)
    /\ dpc' = "frame"
    /\ UNCHANGED <<raw, calib, w, t_axis>>
    /\ UNCHANGED <<pipeVars, schedVars, pacerVars, linkVars, monitorVars,
                   loopVars, genVars, runVars>>

\* np.linspace(0, stop, n, endpoint=True)[k], k from 0: the last sample is
\* the stop itself.
LinspaceEndpoint(k, n, stop) ==
    [num |-> k * stop, den |-> IF n > 1 THEN n - 1 ELSE 1]

\* np.linspace(0, stop, n, endpoint=False)[k], k from 0: k steps of stop / n,
\* kept as the fraction num / den.
Linspace(k, n, stop) == [num |-> k * stop, den |-> n]

\* async_getwave_x (sds.py:225-228): y is an array, never None;
\* t = np.linspace(0, Tmax, y.size, endpoint=False)
TimeAxis ==
    /\ dpc = "frame"
    /\ t_axis' = [k \in 1..Len(v) |-> Linspace(k - 1, Len(v), Tmax)]
    /\ dpc' = "xy"
    /\ UNCHANGED <<raw, calib, w, v, Tmax>>
    /\ UNCHANGED <<pipeVars, schedVars, pacerVars, linkVars, monitorVars,
                   loopVars, genVars, runVars>>

DecodeNext == FromBuffer \/ ToVolts \/ TimeAxis

DecodeSpec == DecodeInit /\ [][DecodeNext]_vars

---------------------------------------------------------------------------
\* The monitor by itself, on its console: _show_fps_timer (live_data.py:
\* 174-184) started by start() with fps=True, beside a consumer that counts
\* the frames it takes off the queue (live_data.py:160) at any pace.  The
\* gather of _show_fps_timer starts the sleep and _show_fps together, so
\* _show_fps runs when the run starts and then every time a sleep ends.

FpsInterval == 1

MonitorInit ==
    /\ PacerIdle /\ LinkIdle /\ DecodeIdle /\ MonitorIdle
    /\ LoopIdle /\ GenIdle /\ RunIdle
    /\ queue_maxsize = 1
    /\ timestamp = FALSE
    /\ fps = TRUE
    /\ yields = TRUE
    /\ channelsArg = [kind |-> "int", n |-> 1, seq |-> <<>>]
    /\ Constructed

\* A monitor that prints at every call, `fps = 0` included.
FpsPrintedAlways(u) == u \div FpsInterval

\* What _show_fps prints on finding the counter at u: int(u / interval) if
\* u > 0, else nothing.
FpsPrinted(u) == IF u > 0 THEN u \div FpsInterval ELSE None

\* self.__updates = self.__updates + 1 of _consume_data (live_data.py:160).
FrameCounted ==
    /\ main = "Running"
    /\ updates < MaxCount
    /\ updates' = updates + 1
    /\ UNCHANGED <<config, others, main, _go_on, queue, prodLoopVars,
                   prodOtherVars, cpc, delivered, mpc, enqueued, stopInRead>>

\* _show_fps (live_data.py:166-170): the print and the reset are both under
\* `if self.__updates > 0`.
ShowFpsPrint ==
    /\ main = "Running" /\ mpc = "show"
    /\ Len(shows) < MaxShows
    /\ shows' = Append(shows, [count |-> updates, fps |-> FpsPrinted(updates)])
    /\ updates' = IF updates > 0 THEN 0 ELSE updates
    /\ mpc' = "sleep"
    /\ UNCHANGED <<config, pacerVars, linkVars, decodeVars, loopVars, genVars,
                   runVars, main,
                   _go_on, queue, prodLoopVars, prodOtherVars, cpc, delivered,
                   enqueued, stopInRead>>

MonitorNext == Start \/ Stop \/ FrameCounted \/ ShowFpsPrint \/ MonitorWake

MonitorSpec == MonitorInit /\ [][MonitorNext]_vars

---------------------------------------------------------------------------
\* The event loop under the tasks of _loop, for a producer whose get_data
\* never suspends (examples/live_fm_sine.py:30-39) and a handler that
\* returns.  The loop keeps the tasks that can run in a queue and runs the
\* one at its head until that task suspends or ends; a task that is woken (by
\* a put, a get, a timer, the end of what its handler awaited) goes to the
\* back, and so does a task that sleeps 0.  A step below is a part of the run
\* of the task at the head; no other task takes a step before that task has
\* left the head.

\* The tasks in the loop's queue.
Tasks(r) == {r[i] : i \in DOMAIN r}

\* A waiter's future is given its result: its task is scheduled, once.
Wake(r, task, waiting) ==
    IF waiting /\ task \notin Tasks(r) THEN Append(r, task) ELSE r

\* A producer loop without the forced yield.
NoForceYield(y) == FALSE

\* `if not self._yields` (live_data.py:139)
ForceYield(y) == ~y

\* What no step of the tasks of this loop changes.
loopFixed == <<config, pacerVars, linkVars, decodeVars, monitorVars, genVars,
               runVars, error,
               gen, wavetime, yielded, requests, linkFailed, stopInRead>>

LoopInit ==
    /\ PacerIdle /\ LinkIdle /\ DecodeIdle /\ MonitorIdle /\ LoopIdle /\ GenIdle /\ RunIdle
    /\ queue_maxsize \in 1..MaxCap
    /\ timestamp = FALSE
    /\ fps \in BOOLEAN
    /\ yields \in BOOLEAN
    /\ channelsArg = [kind |-> "int", n |-> 1, seq |-> <<>>]
    /\ Constructed

\* start(): _loop creates the queue and the tasks, in this order, and waits
\* in gather (live_data.py:191-200).
LoopStart ==
    /\ main = "Idle"
    /\ main' = "Running"
    /\ _go_on' = TRUE
    /\ queue' = <<>>
    /\ ppc' = "new"
    /\ cpc' = "new"
    /\ mpc' = IF fps THEN "new" ELSE "off"
    /\ ready' = <<"P", "C">> \o (IF fps THEN <<"M">> ELSE <<>>)
    /\ UNCHANGED <<loopFixed, data, acquired, updates, enqueued, delivered,
                   owed, seen>>

\* stop(), called by a callback of the loop: between the runs of two tasks.
StopBetweenRuns ==
    /\ ppc \notin {"loop", "toput"}
    /\ cpc # "loop"
    /\ Stop

\* _produce_data at `while self._go_on` (live_data.py:134-141): get_data
\* returns a frame without suspending; a producer declared non-yielding
\* then sleeps 0, which sends it to the back of the loop's queue.
ProducerGetData ==
    /\ main = "Running" /\ ready # <<>> /\ Head(ready) = "P"
    /\ ppc \in {"new", "loop"}
    /\ IF ~_go_on
       THEN /\ ppc' = "done"
            /\ ready' = Tail(ready)
            /\ UNCHANGED <<data, acquired, owed, seen>>
       ELSE /\ acquired < MaxGets
            /\ acquired' = acquired + 1
            /\ data' = [id |-> acquired + 1, ch |-> None, parts |-> {}]
            /\ owed' = Tasks(Tail(ready))
            /\ seen' = [id |-> IF queue = <<>> THEN 0 ELSE Head(queue).id,
                        ready |-> "C" \in Tasks(Tail(ready))]
            /\ IF ForceYield(yields)
               THEN ppc' = "yield" /\ ready' = Append(Tail(ready), "P")
               ELSE ppc' = "toput" /\ ready' = ready
    /\ UNCHANGED <<loopFixed, main, _go_on, queue, cpc, updates, mpc, enqueued,
                   delivered>>

\* A producer that puts whatever get_data returned.
IsDataAlways(d) == TRUE

\* `if data is not None` (live_data.py:144)
IsData(d) == d # NoData

\* `await queue.put(data)` (live_data.py:148): on a full queue the producer
\* waits for a get; else the frame is appended, a consumer waiting in get is
\* woken, and the producer goes on without suspending.
ProducerPut ==
    /\ main = "Running" /\ ready # <<>> /\ Head(ready) = "P"
    /\ ppc \in {"yield", "toput", "put"}
    /\ IsData(data)
    /\ IF QueueFull(queue)
       THEN /\ ppc' = "put"
            /\ ready' = Tail(ready)
            /\ UNCHANGED <<queue, enqueued>>
       ELSE /\ queue' = Append(queue, data)
            /\ enqueued' = Append(enqueued, data)
            /\ ppc' = "loop"
            /\ ready' = Wake(ready, "C", cpc = "get")
    /\ UNCHANGED <<loopFixed, main, _go_on, data, acquired, cpc, updates, mpc,
                   delivered, owed, seen>>

\* _consume_data (live_data.py:156-162) from where it was suspended: a get
\* on an empty queue waits for a put; else the frame is taken, a producer
\* waiting in put is woken, the frame is counted and the handler is invoked,
\* which returns at once or suspends.
ConsumerRun ==
    /\ main = "Running" /\ ready # <<>> /\ Head(ready) = "C"
    /\ cpc \in {"new", "loop", "get", "cb"}
    /\ owed' = owed \ {"C"}
    /\ IF cpc # "get" /\ ~_go_on
       THEN /\ cpc' = "done"
            /\ ready' = Tail(ready)
            /\ UNCHANGED <<queue, updates, delivered>>
       ELSE IF queue = <<>>
       THEN /\ cpc' = "get"
            /\ ready' = Tail(ready)
            /\ UNCHANGED <<queue, updates, delivered>>
       ELSE /\ queue' = Dequeue(queue).rest
            /\ updates' = updates + 1
            /\ delivered' = Append(delivered, Dequeue(queue).item)
            /\ \E suspends \in BOOLEAN :
                 IF suspends
                 THEN /\ cpc' = "cb"
                      /\ ready' = Tail(Wake(ready, "P", ppc = "put"))
                 ELSE /\ cpc' = "loop"
                      /\ ready' = Wake(ready, "P", ppc = "put")
    /\ UNCHANGED <<loopFixed, main, _go_on, ppc, data, acquired, mpc, enqueued,
                   seen>>

\* What the handler awaited is done: the consumer is scheduled.
HandlerDone ==
    /\ main = "Running" /\ cpc = "cb"
    /\ "C" \notin Tasks(ready)
    /\ ready' = Append(ready, "C")
    /\ UNCHANGED <<loopFixed, main, _go_on, queue, ppc, data, acquired, cpc,
                   updates, mpc, enqueued, delivered, owed, seen>>

\* _show_fps_timer at `while self._go_on` (live_data.py:175-184): gather
\* starts the sleep and schedules _show_fps as a task of its own.
MonitorRun ==
    /\ main = "Running" /\ ready # <<>> /\ Head(ready) = "M"
    /\ mpc \in {"new", "woken"}
    /\ owed' = owed \ {"M"}
    /\ IF ~_go_on
       THEN mpc' = "done" /\ ready' = Tail(ready)
       ELSE mpc' = "show" /\ ready' = Append(Tail(ready), "F")
    /\ UNCHANGED <<loopFixed, main, _go_on, queue, ppc, data, acquired, cpc,
                   updates, enqueued, delivered, seen>>

\* The task of _show_fps runs (live_data.py:166-170).
ShowFpsRun ==
    /\ main = "Running" /\ ready # <<>> /\ Head(ready) = "F"
    /\ mpc = "show"
    /\ owed' = owed \ {"F"}
    /\ updates' = 0
    /\ mpc' = "sleep"
    /\ ready' = Tail(ready)
    /\ UNCHANGED <<loopFixed, main, _go_on, queue, ppc, data, acquired, cpc,
                   enqueued, delivered, seen>>

\* The sleep of the monitor's gather ends: _show_fps_timer is scheduled.
TimerDue ==
    /\ main = "Running" /\ mpc = "sleep"
    /\ mpc' = "woken"
    /\ ready' = Append(ready, "M")
    /\ UNCHANGED <<loopFixed, main, _go_on, queue, ppc, data, acquired, cpc,
                   updates, enqueued, delivered, owed, seen>>

LoopNext ==
    \/ LoopStart
    \/ StopBetweenRuns
    \/ ProducerGetData
    \/ ProducerPut
    \/ ConsumerRun
    \/ HandlerDone
    \/ MonitorRun
    \/ ShowFpsRun
    \/ TimerDue
    \/ LoopReturn

LoopSpec == LoopInit /\ [][LoopNext]_vars

---------------------------------------------------------------------------
\* The same loop for a subclass whose get_data may also return None, as the
\* get_data of LiveData itself does (live_data.py:123).  yielded is the
\* history of the calls that returned None.

\* _produce_data at `while self._go_on`, the flag true: get_data returns None
\* without suspending (live_data.py:134-141).
ProducerGetNone ==
    /\ main = "Running" /\ ready # <<>> /\ Head(ready) = "P"
    /\ ppc \in {"new", "loop"}
    /\ _go_on
    /\ acquired < MaxGets
    /\ acquired' = acquired + 1
    /\ data' = NoData
    /\ yielded' = Append(yielded, None)
    /\ owed' = Tasks(Tail(ready))
    /\ seen' = [id |-> IF queue = <<>> THEN 0 ELSE Head(queue).id,
                ready |-> "C" \in Tasks(Tail(ready))]
    /\ IF ForceYield(yields)
       THEN ppc' = "yield" /\ ready' = Append(Tail(ready), "P")
       ELSE ppc' = "toput" /\ ready' = ready
    /\ UNCHANGED <<config, pacerVars, linkVars, decodeVars, monitorVars, genVars,
                   runVars, error, gen, wavetime, requests, linkFailed, stopInRead, main,
                   _go_on, queue, cpc, updates, mpc, enqueued, delivered>>

\* `if data is not None` is false (live_data.py:144): nothing is put and the
\* loop goes round to `while self._go_on`.
ProducerSkipPut ==
    /\ main = "Running" /\ ready # <<>> /\ Head(ready) = "P"
    /\ ppc \in {"yield", "toput"}
    /\ ~IsData(data)
    /\ ppc' = "loop"
    /\ UNCHANGED <<loopFixed, loopVars, main, _go_on, queue, data, acquired, cpc,
                   updates, mpc, enqueued, delivered>>

NoneNext == LoopNext \/ ProducerGetNone \/ ProducerSkipPut

NoneSpec == LoopInit /\ [][NoneNext]_vars

---------------------------------------------------------------------------
\* The generator _next_channel (live_sds.py:73-81) statement by statement,
\* called again and again by a caller of its own as in SchedSpec:
\*     while super()._go_on:
\*         for ch in self.channels:
\*             yield ch
\*     yield None
\* The collection of channels may be empty: decode_channels (osc.py:61-67)
\* returns the empty set for an argument with neither '1' nor '2' in it.
\* gen is the number of channels the current pass of the `for` has yielded.

GenChannelArgs == ChannelArgs \cup {[kind |-> "set", n |-> 0, seq |-> <<>>]}

GenInit ==
    /\ PacerIdle /\ LinkIdle /\ DecodeIdle /\ MonitorIdle
    /\ LoopIdle /\ GenIdle /\ RunIdle
    /\ DefaultConfig
    /\ channelsArg \in GenChannelArgs
    /\ Constructed

\* What no step of the generator changes.
genFixed == <<pipeVars, pacerVars, linkVars, decodeVars, monitorVars, loopVars,
              runVars, channelsArg, _go_on>>

\* next(self._next) is called: the generator starts at its `while`, or goes
\* on after the `yield ch` it was suspended in.
GenCall ==
    /\ main = "Idle" /\ genpc = "idle"
    /\ gen # -1
    /\ Len(yielded) < MaxNext
    /\ genpc' = IF gen = 0 THEN "while" ELSE "for"
    /\ spins' = 0
    /\ UNCHANGED <<genFixed, gen, yielded>>

\* `while super()._go_on`: a new pass of the `for`, or `yield None`.
WhileTest ==
    /\ main = "Idle" /\ genpc = "while"
    /\ spins < MaxSpins
    /\ spins' = spins + 1
    /\ IF SuperGoOn
       THEN /\ genpc' = "for"
            /\ gen' = 0
            /\ UNCHANGED yielded
       ELSE /\ genpc' = "idle"
            /\ gen' = -1
            /\ yielded' = Append(yielded, None)
    /\ UNCHANGED genFixed

\* `for ch in self.channels`: the next channel is yielded and next()
\* returns it, or the collection is exhausted and the `while` is tested again.
ForStep ==
    /\ main = "Idle" /\ genpc = "for"
    /\ IF gen < Len(channels)
       THEN /\ genpc' = "idle"
            /\ gen' = gen + 1
            /\ yielded' = Append(yielded, channels[gen + 1])
       ELSE /\ genpc' = "while"
            /\ UNCHANGED <<gen, yielded>>
    /\ UNCHANGED <<genFixed, spins>>

GenNext == GenCall \/ WhileTest \/ ForStep \/ Stop

GenSpec == GenInit /\ [][GenNext]_vars

---------------------------------------------------------------------------
\* One object started more than once: start() is called on an object that
\* was never started, or after an earlier start() has returned or raised.
\* asyncio.run gives each call a new event loop, _loop a new queue and new
\* tasks (live_data.py:96-101, 191-200); the object keeps its flag, its
\* generator, its counter and its SDS.

RestartInit ==
    /\ PacerIdle /\ LinkIdle /\ DecodeIdle /\ MonitorIdle
    /\ LoopIdle /\ GenIdle /\ RunIdle
    /\ queue_maxsize = 1
    /\ timestamp = FALSE
    /\ fps \in BOOLEAN
    /\ yields \in BOOLEAN
    /\ channelsArg = [kind |-> "int", n |-> 1, seq |-> <<>>]
    /\ Constructed

\* A start() that leaves the flag as it finds it.
RunFlagLatched(flag) == flag

\* self._go_on = True (live_data.py:100)
RunFlag(flag) == TRUE

\* A _loop that goes on with the queue of the run before.
QueueKept(q) == q

\* asyncio.Queue(maxsize=self.__queue_maxsize) (live_data.py:191)
QueueCreated(q) == <<>>

\* start(): the flag is set, the queue and the tasks are created, and each
\* task runs to its first suspension; the producer's is in get_data.
StartRun ==
    /\ main \in {"Idle", "Stopped", "Failed"}
    /\ Len(starts) < MaxRuns
    /\ Len(yielded) < MaxFrames
    /\ starts' = Append(starts, [flag |-> _go_on,
                                 left |-> Len(queue),
                                 held |-> acquired - Len(enqueued),
                                 acq |-> Len(yielded),
                                 enq |-> Len(enqueued),
                                 del |-> Len(delivered)])
    /\ main' = "Running"
    /\ _go_on' = RunFlag(_go_on)
    /\ ConsumeLoop(RunFlag(_go_on), QueueCreated(queue))
    /\ mpc' = IF ~fps THEN "off" ELSE IF _go_on' THEN "show" ELSE "done"
    /\ LET r == NextChannel(gen) IN
         IF ~_go_on'
         THEN /\ ppc' = "done"
              /\ error' = "none"
              /\ UNCHANGED <<data, gen, yielded, requests>>
         ELSE IF r.kind = "stop"
         THEN /\ ppc' = "failed"
              /\ error' = "RuntimeError"
              /\ UNCHANGED <<data, gen, yielded, requests>>
         ELSE IF r.val = None
         THEN /\ gen' = r.gen
              /\ yielded' = Append(yielded, None)
              /\ data' = NoData
              /\ requests' = requests
              /\ ppc' = "failed"
              /\ error' = "RuntimeError"
         ELSE /\ gen' = r.gen
              /\ yielded' = Append(yielded, r.val)
              /\ data' = [id |-> Len(yielded) + 1, ch |-> r.val, parts |-> {}]
              /\ requests' = requests + 1
              /\ ppc' = "tdiv"
              /\ error' = "none"
    /\ UNCHANGED <<config, pacerVars, linkVars, decodeVars, monitorVars, loopVars,
                   genVars, prodOtherVars, enqueued, stopInRead>>

RestartNext == StartRun \/ Stop \/ TaskStep

RestartSpec == RestartInit /\ [][RestartNext]_vars

---------------------------------------------------------------------------
\* The claims.

Ids(s) == {s[i].id : i \in DOMAIN s}

Pos(s, x) == CHOOSE k \in DOMAIN s : s[k] = x

\* The producer is about to put the frame it holds.
AtPut == (ppc = "offs" /\ yields) \/ (ppc = "yield" /\ data # NoData)

\* C1: the queue never holds more than queue_maxsize frames.
C1_QueueBounded == Len(queue) <= queue_maxsize

\* The queue is full at the largest capacity and the producer holds one more.
C1_Witness ==
    queue_maxsize = MaxCap /\ Len(queue) = queue_maxsize /\ ppc = "put"

\* C2: a put on a full queue suspends the producer with its frame, the queue
\* untouched; while it is suspended it acquires nothing; it leaves the put
\* only when the queue has room, and then its frame is appended.
C2_Backpressure ==
    [][ /\ (AtPut /\ Len(queue) >= queue_maxsize
              /\ ppc' \notin {ppc, "failed", "cancelled"})
           => /\ ppc' = "put"
              /\ data'.id = data.id
              /\ queue' = queue
              /\ enqueued' = enqueued
              /\ yielded' = yielded
              /\ requests' = requests
        /\ (ppc = "put" /\ ppc' = "put")
           => /\ data' = data
              /\ enqueued' = enqueued
              /\ yielded' = yielded
              /\ requests' = requests
        /\ (ppc = "put" /\ ppc' \notin {"put", "cancelled"})
           => /\ Len(queue) < queue_maxsize
              /\ queue' = Append(queue, data)
              /\ enqueued' = Append(enqueued, data)
      ]_vars

\* Capacity 1, the first frame not dequeued, the second put suspended.
C2_Witness ==
    /\ queue_maxsize = 1 /\ ppc = "put"
    /\ Len(enqueued) = 1 /\ Len(queue) = 1 /\ delivered = <<>>
    /\ data.id = 2

\* C3: the handler gets frames in the order the producer enqueued them.
C3_Fifo ==
    \A i, j \in DOMAIN delivered :
        /\ \E k \in DOMAIN enqueued : enqueued[k] = delivered[i]
        /\ i < j => Pos(enqueued, delivered[i]) < Pos(enqueued, delivered[j])

\* Two frames that were in the queue together have both been delivered, the
\* monitor running.
C3_Witness ==
    /\ queue_maxsize >= 2 /\ fps /\ mpc = "sleep"
    /\ Len(delivered) >= 2 /\ Len(channels) = 2

\* C4: once stop() has been called in a running pipeline, some task or _loop
\* can take a step until start() has ended.
C4_StopTerminates ==
    (main = "Running" /\ ~_go_on) => ENABLED TaskStep

\* C5: start() has ended only with every task ended; it has returned only
\* with every task returned, every acquisition that was started completed
\* and its frame put.
C5_NoReturnBeforeTasks ==
    /\ main \in {"Stopped", "Failed"}
       => Terminated(ppc) /\ Terminated(cpc) /\ Terminated(mpc)
    /\ main = "Stopped"
       => /\ ppc = "done" /\ cpc = "done" /\ mpc \in {"done", "off"}
          /\ acquired = Len(yielded)
          /\ Len(enqueued) = acquired

\* stop() came while an instrument request was in flight, the monitor
\* enabled; start() has returned.
C5_Witness == main = "Stopped" /\ stopInRead /\ fps

\* C6 as claimed: when the handler has raised, start() raises the handler's
\* error.
C6_HandlerErrorReported ==
    (cpc = "failed" /\ main = "Failed") => error = "HandlerError"

\* C6 as amended: when the handler has raised, start() does not return but
\* raises, the producer and the monitor ended by then; it raises the first
\* failure of the run, the handler's unless the producer had failed before.
C6_HandlerFailure ==
    /\ [](cpc = "failed" => main # "Stopped" /\ error # "none")
    /\ [](cpc = "failed" /\ main = "Failed"
            => Terminated(ppc) /\ Terminated(mpc))
    /\ [](cpc = "failed" /\ ppc # "failed" => error = "HandlerError")
    /\ (cpc = "failed" ~> main = "Failed")

\* The handler raised with the producer suspended on the full queue and the
\* monitor asleep; start() has raised.
C6_Witness ==
    /\ cpc = "failed" /\ main = "Failed" /\ error = "HandlerError"
    /\ ppc = "cancelled" /\ mpc = "cancelled"
    /\ Len(queue) = queue_maxsize /\ data.id > Len(enqueued)

\* C7 as claimed: when an instrument request has failed, start() raises that
\* failure.
C7_LinkFailureReported ==
    (linkFailed /\ main = "Failed") => error \in {"LinkError", "ProtocolError"}

\* C7 as amended: when an instrument request has failed the producer has
\* ended and issues no request any more, start() does not return but
\* raises; it raises the first failure of the run, the request's unless the
\* handler had raised before.
C7_LinkFailure ==
    /\ [](linkFailed => ppc = "failed" /\ main # "Stopped" /\ error # "none")
    /\ [][linkFailed => requests' = requests]_vars
    /\ [](linkFailed /\ cpc # "failed"
            => error \in {"LinkError", "ProtocolError"})
    /\ (linkFailed ~> main = "Failed")

\* The offset query of the second acquisition failed; start() has raised.
C7_Witness ==
    /\ linkFailed /\ main = "Failed" /\ error = "ProtocolError"
    /\ data.id = 2 /\ data.parts = {"tdiv", "wave", "vdiv"}

\* C8: every frame put on the queue holds the answers of all four requests
\* of its cycle, and the cycle in which a request failed put nothing.
C8_NoPartialFrames ==
    /\ \A i \in DOMAIN enqueued : enqueued[i].parts = AllParts
    /\ \A i \in DOMAIN delivered : delivered[i].parts = AllParts
    /\ linkFailed => data.id \notin Ids(enqueued)
    /\ Len(enqueued) <= acquired

\* A cycle failed after its waveform had been read, after an earlier frame
\* had reached the handler.
C8_Witness ==
    /\ linkFailed /\ "wave" \in data.parts
    /\ Len(delivered) >= 1

\* C9: with timestamp=True every frame get_data has returned is on its way
\* to the handler: enqueued, or held by the producer for the put.
C9_TimestampedFramesEnqueued ==
    timestamp =>
        \A k \in 1..acquired :
            \/ k \in Ids(enqueued)
            \/ data.id = k /\ ppc \in {"yield", "put"}

\* The order the scheduler is configured with.
Configured ==
    IF channelsArg.kind = "int" THEN <<channelsArg.n>> ELSE channelsArg.seq

\* C10: the i-th next() yields the channel at place ((i-1) mod M) + 1 of the
\* configured order; a channel given as one integer is yielded every time.
C10_RoundRobin ==
    /\ \A i \in DOMAIN yielded :
           yielded[i] = Configured[((i - 1) % Len(Configured)) + 1]
    /\ channelsArg.kind = "int"
       => \A i \in DOMAIN yielded : yielded[i] = channelsArg.n

\* Two channels, and a second pass begun.
C10_Witness ==
    /\ Len(Configured) = 2
    /\ Len(yielded) >= 3

\* C11: next() yields None only once stop() has been called; once stop() has
\* been called, the next() that would begin a pass over the channels yields
\* None; after None no channel is yielded.
C11_SchedulerStop ==
    [][Len(yielded') > Len(yielded) =>
         LET y == yielded'[Len(yielded')] IN
         /\ y = None => ~_go_on
         /\ (~_go_on /\ gen \in {0, Len(channels)}) => y = None
         /\ \A i \in DOMAIN yielded : yielded[i] # None
      ]_vars

\* The larger of x and 0.
AtLeastZero(x) == IF x > 0 THEN x ELSE 0

\* C12: the first decision of the pacer gives a wait of zero; a later one,
\* taken at `now` with T the sweep time, gives max(0, 4T - (now - last)),
\* last being lastAcquisitionInstant as the decision found it: positive when
\* less than 4T has passed, zero when 4T or more has passed.
C12_PacerWaitValue ==
    LET T == timebase * Divisions
        passed == now - before
    IN  /\ before = None => sleep = 0
        /\ before # None =>
              /\ sleep = AtLeastZero(4 * T - passed)
              /\ passed < 4 * T => sleep > 0
              /\ passed >= 4 * T => sleep = 0

\* A second call 56 ticks after the first, the sweep time now 28: the pacer
\* sleeps the 56 ticks that are short of 4T = 112.
C12_Witness ==
    /\ gpc = "sleep" /\ before # None /\ timebase = 2
    /\ now - before = 56 /\ sleep = 56

\* C13: between the instants of two waveform requests that follow each other
\* at least 4T passes, T the sweep time at the later request.
C13_PacingGuarantee ==
    \A i \in 2..Len(issued) :
        issued[i].at - issued[i - 1].at >= 4 * issued[i].T

\* C14: once a call of the pacer has requested its waveform,
\* lastAcquisitionInstant is the clock value the call read for its decision,
\* whether it waited or not: the wait it made lies between that instant and
\* the request.
C14_WavetimeIsDecisionInstant ==
    (issued # <<>> /\ gpc # "sleep") =>
        /\ _wavetime = now
        /\ _wavetime + sleep <= issued[Len(issued)].at
        /\ _wavetime <= clock

\* A call that waited has requested its waveform: the decision lies before
\* the end of the wait.
C14_Witness ==
    /\ gpc = "wave" /\ sleep > 0 /\ Len(issued) >= 2
    /\ _wavetime < issued[Len(issued)].at

\* The call has returned or raised.
Ended == lpc \in {"returned", "raised"}

IsPrefix(a, b) == Len(a) <= Len(b) /\ \A i \in DOMAIN a : a[i] = b[i]

AllDigits(f) == \A i \in DOMAIN f : f[i] \in 48..57

\* The number that ASCII decimal digits write.
RECURSIVE DecimalOf(_)
DecimalOf(f) ==
    IF f = <<>> THEN 0
    ELSE 10 * DecimalOf(SubSeq(f, 1, Len(f) - 1)) + (f[Len(f)] - 48)

\* C15: when the instrument's answer begins with 22 bytes of which the last
\* 9 are ASCII digits writing S, async_query_rawwave reads only after it has
\* written the command and the terminator; it asks for 22 bytes, then for S
\* bytes, then for 2 bytes, and for nothing else; when it returns it has read
\* 22 + S + 2 bytes and returns the S bytes that follow the header, whatever
\* they are.
C15_BinaryBlock ==
    (op = "sds.async_query_rawwave" /\ Len(stream) >= 22
       /\ AllDigits(SubSeq(stream, 14, 22))) =>
        LET S == DecimalOf(SubSeq(stream, 14, 22)) IN
        /\ IsPrefix(reads, <<22, S, 2>>)
        /\ reads # <<>> => written = <<"cmd", "LF">>
        /\ lpc = "returned" =>
              /\ reads = <<22, S, 2>>
              /\ rpos = 22 + S + 2
              /\ Len(wave) = S
              /\ wave = SubSeq(stream, 23, 22 + S)

\* A payload of two line feeds, the bytes of a terminator, has been
\* returned.
C15_Witness ==
    /\ op = "sds.async_query_rawwave" /\ lpc = "returned"
    /\ SubSeq(stream, 14, 22) = <<48, 48, 48, 48, 48, 48, 48, 48, 50>>
    /\ wave = <<10, 10>>

\* C16: async_query_rawwave does not return but raises when the answer is
\* shorter than a header, when the last 9 bytes of the header are no integer
\* to int(), and when the connection closes before the declared number of
\* payload bytes; what it returns has the declared length.
C16_BlockErrors ==
    op = "sds.async_query_rawwave" =>
        LET short == Len(stream) < 22
            n == IF short THEN [ok |-> FALSE, val |-> 0]
                 ELSE ParseInt(SubSeq(stream, 14, 22))
        IN  /\ (Ended /\ (short \/ ~n.ok \/ Len(stream) < 22 + n.val))
                 => lpc = "raised" /\ exc \in {"ProtocolError", "LinkError"}
            /\ lpc = "raised" => exc # "none"
            /\ lpc = "returned" => Len(wave) = n.val

\* The connection closed after one of two declared payload bytes: the call
\* has raised.
C16_Witness ==
    /\ op = "sds.async_query_rawwave" /\ lpc = "raised"
    /\ reads = <<22, 2>> /\ Len(stream) = 23 /\ exc = "ProtocolError"

\* C17: a query that has opened a connection has opened a new one; when it
\* has written, it has written the command and the terminator; no connection
\* a query has opened is open once the query has returned or raised.
C17_QueryConnections ==
    /\ \A i \in DOMAIN conns :
           (conns[i].by \in Queries /\ (i # mine \/ Ended))
               => conns[i].st = "closed"
    /\ (op \in Queries /\ mine # 0)
           => mine = Len(conns) /\ conns[mine].by = op
    /\ (op \in Queries /\ written # <<>>)
           => written = <<"cmd", Terminator(op)>>
    /\ (op \in Queries /\ lpc = "returned")
           => mine # 0 /\ written # <<>>

\* The second query of a run has failed in its read of the header.
C17_Witness ==
    /\ Len(conns) = 2 /\ conns[1].by \in Queries
    /\ op = "sds.async_query_rawwave" /\ mine = 2
    /\ lpc = "raised" /\ reads = <<22>>

\* C18: no connection a send has opened is open once the send has ended; a
\* send that has ended without a failure has written the command and the
\* terminator.
C18_SendConnections ==
    /\ \A i \in DOMAIN conns :
           (conns[i].by \in Sends /\ (i # mine \/ Ended))
               => conns[i].st = "closed"
    /\ (op \in Sends /\ lpc = "returned" /\ exc = "none")
           => written = <<"cmd", Terminator(op)>>

\* A byte b as the claims read it: b up to 127, b - 256 from 128.
SignedByte(b) == IF b <= 127 THEN b ELSE b - 256

\* C19 as claimed: the voltage axis has the length N of the raw block and
\* its value at k is (toSigned(raw[k]) / 128 * g * 5 - o) * a.  With v[k] 25
\* times the voltage, and both sides times 128:
C19_DecodeFormula ==
    dpc = "frame" =>
        /\ Len(v) = Len(raw)
        /\ \A k \in DOMAIN raw :
               128 * v[k]
                 = 25 * ((SignedByte(raw[k]) * calib.vdiv * 5 - 128 * calib.offs)
                           * calib.att)

\* C19 as amended: the voltage axis has the length N of the raw block and
\* its value at k is toSigned(raw[k]) * g / 25 - o; the probe attenuation
\* has no part in it.
C19_DecodeAsCoded ==
    dpc = "frame" =>
        /\ Len(v) = Len(raw)
        /\ \A k \in DOMAIN raw :
               v[k] = SignedByte(raw[k]) * calib.vdiv - 25 * calib.offs

\* The block 128, 127 decoded at 2 V per division, offset 1 V, a 10x probe:
\* in 1/25 V, -128 * 2 - 25 and 127 * 2 - 25.
C19_Witness ==
    /\ dpc = "frame" /\ raw = <<128, 127>>
    /\ calib = [tdiv |-> 1, vdiv |-> 2, offs |-> 1, att |-> 10]
    /\ v = <<-281, 229>>

\* C20: the sample decoded from the byte b is b when b <= 127 and b - 256
\* when b >= 128; it lies in -128..127, and the byte can be told from it.
C20_SignedBytes ==
    dpc # "raw" =>
        /\ Len(w) = Len(raw)
        /\ \A k \in DOMAIN raw :
               /\ raw[k] <= 127 => w[k] = raw[k]
               /\ raw[k] >= 128 => w[k] = raw[k] - 256
               /\ w[k] \in -128..127
               /\ raw[k] = IF w[k] >= 0 THEN w[k] ELSE w[k] + 256
        /\ \A j, k \in DOMAIN raw : w[j] = w[k] => raw[j] = raw[k]

\* The byte 128 has been decoded as -128 next to the byte 127.
C20_Witness ==
    dpc = "samples" /\ raw = <<127, 128>> /\ w = <<127, -128>>

\* C21: a frame's time axis and voltage axis both have as many entries as
\* the raw block has bytes; the time axis starts at 0, goes up by one
\* constant step, the sweep time over the number of samples, and stays
\* below the sweep time.
C21_TimeAxis ==
    dpc = "xy" =>
        LET N == Len(raw)
            sweep == SweepTime(calib.tdiv)
        IN  /\ Len(t_axis) = N
            /\ Len(v) = N
            /\ \A k \in 1..N : t_axis[k].den > 0
            /\ N > 0 => t_axis[1].num = 0
            /\ \A k \in 1..(N - 1) :
                   (t_axis[k + 1].num * t_axis[k].den - t_axis[k].num * t_axis[k + 1].den) * N
                       = sweep * t_axis[k].den * t_axis[k + 1].den
            /\ \A k \in 1..N : t_axis[k].num < sweep * t_axis[k].den

C21_Witness ==
    /\ dpc = "xy"
    /\ Len(raw) = 2
    /\ calib.tdiv = 2
    /\ t_axis = <<[num |-> 0, den |-> 2], [num |-> 28, den |-> 2]>>

\* C22 as stated: at every interval boundary, the boundary of an interval
\* without frames included, the monitor prints the frames counted since the
\* last report over the interval.  (The first _show_fps call, when the run
\* starts, is not at a boundary.)
C22_ReportEveryInterval ==
    \A i \in 2..Len(shows) : shows[i].fps = shows[i].count \div FpsInterval

\* C22 as coded: _show_fps prints the whole part of counter / interval when
\* the counter is positive and nothing when it is zero, and the counter is
\* zero right after every _show_fps call.
C22_ReportsAsCoded ==
    /\ [](\A i \in DOMAIN shows :
            shows[i].fps = IF shows[i].count > 0
                           THEN shows[i].count \div FpsInterval
                           ELSE None)
    /\ [][shows' # shows => updates' = 0]_vars

C22_Witness ==
    /\ Len(shows) = 3
    /\ shows[2] = [count |-> 2, fps |-> 2]
    /\ shows[3] = [count |-> 0, fps |-> None]
    /\ mpc = "sleep"
    /\ updates = 0

\* C23 as stated: a frame whose handler call is in progress, or has raised,
\* is not in the counter.
C23_CountAfterHandler ==
    updates <= Len(delivered) - (IF cpc \in {"cb", "failed"} THEN 1 ELSE 0)

\* C23 as coded: the counter goes up by one in the very step that takes a
\* frame off the queue and invokes the handler with it, so the frame whose
\* handler call is in progress is counted already.
C23_CountedAtDequeue ==
    /\ [](updates <= Len(delivered) /\ (~fps => updates = Len(delivered)))
    /\ [][updates' > updates =>
             /\ updates' = updates + 1
             /\ Len(delivered') = Len(delivered) + 1
             /\ cpc' = "cb"]_vars

C23_Witness ==
    /\ fps /\ mpc = "show"
    /\ cpc = "cb"
    /\ Len(delivered) = 1
    /\ updates = 1

\* C24: a frame is handed to the handler only when the producer has put it
\* on the queue before, in this run, and no frame is handed to the handler
\* twice.
C24_AtMostOnce ==
    /\ [](/\ \A i, j \in DOMAIN enqueued :
                enqueued[i].id = enqueued[j].id => i = j
          /\ \A i, j \in DOMAIN delivered :
                delivered[i].id = delivered[j].id => i = j
          /\ Len(delivered) <= Len(enqueued))
    /\ [][delivered' # delivered =>
             /\ Len(delivered') = Len(delivered) + 1
             /\ SubSeq(delivered', 1, Len(delivered)) = delivered
             /\ \E k \in DOMAIN enqueued :
                    enqueued[k] = delivered'[Len(delivered')]]_vars

\* Capacity 2, both channels, three frames enqueued and all three delivered.
C24_Witness ==
    /\ queue_maxsize = 2 /\ Len(channels) = 2
    /\ Len(enqueued) = 3 /\ Len(delivered) = 3

\* C25, for a run that has ended: when start() has returned, every frame
\* get_data returned has been handed to the handler.
C25_EveryFrameDelivered ==
    main = "Stopped" => Len(delivered) = acquired

C27_OneAtATime ==
    /\ [](cpc = "cb" => delivered # <<>>)
    /\ [][delivered' # delivered =>
             /\ cpc \in {"get", "cb"}
             /\ queue # <<>>
             /\ delivered' = Append(delivered, Head(queue))
             /\ queue' = Tail(queue)
             /\ cpc' = "cb"]_vars

\* The handler is busy with the second frame while the third waits in the
\* queue.
C27_Witness ==
    /\ cpc = "cb"
    /\ Len(delivered) = 2
    /\ Len(queue) = 1
    /\ Len(enqueued) = 3

\* C28: the frames get_data has returned and the handler has not been
\* invoked with yet are never more than the capacity plus one: those in the
\* queue and the one the producer holds.
C28_BoundedBuffering ==
    /\ acquired - Len(delivered) <= queue_maxsize + 1
    /\ acquired - Len(delivered) > queue_maxsize
         => Len(queue) = queue_maxsize /\ ppc \in {"put", "yield", "cancelled"}

\* The largest capacity, the consumer yet to take a frame: the queue is full
\* and the producer waits in put with one more.
C28_Witness ==
    /\ queue_maxsize = MaxCap
    /\ delivered = <<>>
    /\ acquired = queue_maxsize + 1
    /\ ppc = "put"

\* C29 as stated: when the waveform of a frame is requested, the channel's
\* calibration (VDIV and OFFSET) has been read for that frame.
C29_CalibrationBeforeWaveform ==
    ppc = "wave" => {"vdiv", "offs"} \subseteq data.parts

\* C29 as coded: in every iteration, after next(), TIME_DIV? is answered
\* first, then the pacer decides and waits, then the waveform is requested
\* and answered, then <CH>:VDIV?, then <CH>:OFFSET?, and only then the frame
\* is decoded and enqueued; every one of the four requests is made exactly
\* once per iteration.
C29_StepOrder ==
    /\ [](/\ ppc = "tdiv" => data.parts = {}
          /\ ppc \in {"sleep", "wave"} => data.parts = {"tdiv"}
          /\ ppc = "vdiv" => data.parts = {"tdiv", "wave"}
          /\ ppc = "offs" => data.parts = {"tdiv", "wave", "vdiv"}
          /\ \A i \in DOMAIN enqueued : enqueued[i].parts = AllParts
          /\ ppc \in InFlight =>
                /\ data.id = Len(yielded)
                /\ data.ch = yielded[Len(yielded)]
                /\ requests = 4 * (data.id - 1) + Cardinality(data.parts) + 1
          /\ ppc = "sleep" => requests = 4 * (data.id - 1) + 1)
    /\ [][ppc' # ppc =>
             /\ ppc' = "tdiv" => Len(yielded') = Len(yielded) + 1
             /\ ppc' = "sleep" => ppc = "tdiv"
             /\ ppc' = "wave" => ppc \in {"tdiv", "sleep"}
             /\ ppc' = "vdiv" => ppc = "wave"
             /\ ppc' = "offs" => ppc = "vdiv"
             /\ Len(enqueued') > Len(enqueued) => ppc \in {"offs", "yield", "put"}
       ]_vars

\* The second iteration has its timebase, its waveform and <CH>:VDIV?, and
\* awaits the answer to <CH>:OFFSET?.
C29_Witness ==
    /\ ppc = "offs"
    /\ data.id = 2
    /\ data.parts = {"tdiv", "wave", "vdiv"}
    /\ requests = 8
    /\ Len(enqueued) = 1

\* C30: the i-th frame the handler is invoked with is the frame of the i-th
\* next(), and its channel is the one at place ((i-1) mod M) + 1 of the
\* configured order.
C30_ChannelOrder ==
    \A i \in DOMAIN delivered :
        /\ delivered[i].id = i
        /\ delivered[i].ch = yielded[i]
        /\ delivered[i].ch = Configured[((i - 1) % Len(Configured)) + 1]

\* Channels 0 and 1 at capacity 2, the monitor running: the handler has been
\* invoked with frames of channels 0, 1, 0.
C30_Witness ==
    /\ channelsArg.seq = <<0, 1>>
    /\ queue_maxsize = 2 /\ fps
    /\ Len(delivered) = 3
    /\ [i \in 1..3 |-> delivered[i].ch] = <<0, 1, 0>>

\* C31: the producer calls get_data only with the flag true; once stop()
\* has been called it begins no acquisition.  An acquisition in flight when
\* stop() is called goes on as it would without the stop: every request
\* still to come is made, and the frame is returned and put, unless a request
\* fails or the run is cancelled after a failure.
C31_CooperativeStop ==
    /\ [][Len(yielded') > Len(yielded) => _go_on']_vars
    /\ [][(main = "Running" /\ ~_go_on /\ ppc' # ppc) =>
             /\ ppc = "tdiv" => ppc' \in {"sleep", "wave", "failed", "cancelled"}
             /\ ppc = "sleep" => ppc' \in {"wave", "cancelled"}
             /\ ppc = "wave" => ppc' \in {"vdiv", "failed", "cancelled"}
             /\ ppc = "vdiv" => ppc' \in {"offs", "failed", "cancelled"}
             /\ ppc = "offs" =>
                   \/ ppc' \in {"failed", "cancelled"}
                   \/ acquired' = acquired + 1
             /\ ppc' = "done" => Len(yielded') = Len(yielded)
       ]_vars

\* stop() was called with a request of the second acquisition in flight;
\* the acquisition has completed, its frame is on the queue and the producer
\* has ended.
C31_Witness ==
    /\ main = "Running" /\ ~_go_on /\ stopInRead
    /\ ppc = "done"
    /\ acquired = 2 /\ Len(yielded) = 2
    /\ Len(enqueued) = 2

\* A step of the monitor task itself: from its sleep or its report to the
\* next of the two, or to its end.
MonitorStep ==
    /\ mpc \in {"show", "sleep"}
    /\ mpc' \in {"show", "sleep", "done"}
    /\ mpc' # mpc

\* C32: a step of the monitor leaves the queue, the flag, the generator of
\* channels, the pacer, the producer, the consumer and the frames enqueued
\* and delivered as they are, and every step of the producer, the consumer
\* and _loop that could be taken before it can be taken after it, and no
\* other.
C32_MonitorFrame ==
    [][MonitorStep =>
         /\ UNCHANGED <<config, main, _go_on, queue, error, ppc, data, gen,
                        wavetime, cpc, yielded, requests, acquired, linkFailed,
                        enqueued, delivered, stopInRead, pacerVars>>
         /\ (ENABLED PutResume)' = ENABLED PutResume
         /\ (ENABLED ConsumerWake)' = ENABLED ConsumerWake
         /\ (ENABLED HandlerReturn)' = ENABLED HandlerReturn
         /\ (ENABLED OffsReturn)' = ENABLED OffsReturn
         /\ (ENABLED YieldReturn)' = ENABLED YieldReturn
         /\ (ENABLED TdivReturn)' = ENABLED TdivReturn
    ]_vars

\* The monitor has reported and reset the counter after the first delivery,
\* with a frame in the queue, the handler busy and the producer waiting in
\* put.
C32_Witness ==
    /\ fps /\ mpc = "sleep"
    /\ updates = 0
    /\ Len(delivered) = 1 /\ cpc = "cb"
    /\ Len(queue) = 1 /\ ppc = "put"

\* The steps of the producer task and those of the consumer task.
ProducerStep ==
    \/ TdivReturn \/ SleepReturn \/ WaveReturn \/ VdivReturn \/ OffsReturn
    \/ YieldReturn \/ PutResume

ConsumerStep == ConsumerWake \/ HandlerReturn \/ HandlerRaise

\* C33: while the run is on, the flag true and no task failed, the producer
\* does not wait in put on a full queue while the consumer waits in get on
\* an empty one, and the producer or the consumer can take a step.  (The
\* bound on the acquisitions of one run is not yet reached.)
C33_NoDeadlock ==
    (main = "Running" /\ _go_on /\ error = "none"
       /\ Len(yielded) < MaxFrames)
    => /\ ~(ppc = "put" /\ QueueFull(queue) /\ cpc = "get" /\ queue = <<>>)
       /\ ENABLED (ProducerStep \/ ConsumerStep)
       /\ ppc = "put" /\ QueueFull(queue) => ENABLED ConsumerStep
       /\ cpc = "get" /\ queue = <<>> => ENABLED ProducerStep

\* Capacity 1: the producer waits in put with the second frame, the first
\* is in the queue and the consumer, woken from its get, has yet to run.
C33_Witness ==
    /\ main = "Running" /\ _go_on /\ error = "none"
    /\ queue_maxsize = 1
    /\ ppc = "put" /\ Len(queue) = 1
    /\ cpc = "get"

\* C34: in a run in which stop() has been called the flag stays false; the
\* step that enqueues a frame then is the producer's last, and the producer,
\* once ended, enqueues nothing; a step that invokes the handler then starts
\* from the consumer's wait in get, and the consumer in a handler call
\* invokes no further one.  So at most one frame is enqueued and at most one
\* handler call is started after stop().
C34_BoundedWorkAfterStop ==
    [][(main = "Running" /\ ~_go_on) =>
         /\ ~_go_on'
         /\ Len(enqueued') <= Len(enqueued) + 1
         /\ Len(enqueued') > Len(enqueued) => ppc # "done" /\ ppc' = "done"
         /\ ppc = "done" => ppc' = "done"
         /\ Len(delivered') <= Len(delivered) + 1
         /\ Len(delivered') > Len(delivered) => cpc = "get" /\ cpc' = "cb"
         /\ cpc \in {"cb", "done"} => cpc' \notin {"get", "idle"}
    ]_vars

\* stop() came while the first acquisition was in flight; after it the one
\* frame was enqueued, the producer ended, and the handler was invoked once.
C34_Witness ==
    /\ main = "Running" /\ ~_go_on /\ stopInRead
    /\ Len(yielded) = 1
    /\ Len(enqueued) = 1 /\ ppc = "done"
    /\ Len(delivered) = 1 /\ cpc = "cb"

\* C35: a next() tests the `while` of the generator at most once before it
\* returns a value: it does not come back to the test without having
\* yielded.
C35_NextReturns == spins <= 1

\* C36: the frames dequeued so far less the counter's value, which is the sum
\* of the counts the reports have consumed, is never negative, is zero in a
\* run without monitor, is changed by no step but a report, and a report
\* consumes the whole counter and dequeues nothing.
C36_CounterConservation ==
    /\ [](updates >= 0 /\ updates <= Len(delivered))
    /\ [](~fps => updates = Len(delivered))
    /\ [][IF mpc = "show" /\ mpc' = "sleep"
          THEN updates' = 0 /\ UNCHANGED delivered
          ELSE /\ Len(delivered') - updates' = Len(delivered) - updates
               /\ Len(delivered') \in {Len(delivered), Len(delivered) + 1}]_vars

\* Two frames were counted and consumed by reports, a third is counted since.
C36_Witness ==
    /\ fps /\ main = "Running"
    /\ Len(delivered) = 3 /\ updates = 1
    /\ mpc = "show"

\* The calls SDS.async_getwave makes (sds.py:168, 189, 195, 200).
AcquisitionCalls == {"examples.async_query", "sds.async_query_rawwave"}

OpenConns == {i \in DOMAIN conns : conns[i].st = "open"}

\* C37: while every connection so far was opened by a request of the
\* acquisition, at most one connection is open, it is the one of the request
\* in progress, and a request returns or raises, and the next one connects,
\* with no connection open.
C37_OneConnection ==
    (\A i \in DOMAIN conns : conns[i].by \in AcquisitionCalls) =>
        /\ Cardinality(OpenConns) <= 1
        /\ OpenConns # {} =>
              /\ OpenConns = {mine}
              /\ lpc \in {"drain", "read", "header", "payload", "trailer"}
        /\ lpc \in {"idle", "connect", "returned", "raised"} => OpenConns = {}

\* The timebase query has closed its connection, the waveform query has its
\* own open.
C37_Witness ==
    /\ Len(conns) = 2
    /\ conns[1] = [by |-> "examples.async_query", st |-> "closed"]
    /\ conns[2] = [by |-> "sds.async_query_rawwave", st |-> "open"]
    /\ lpc = "payload"

\* C38: None is never in the queue nor handed to the handler; every frame
\* enqueued belongs to a get_data that returned a frame, and every frame
\* counted to one dequeued; the step in which get_data returns None and the
\* step that passes the put change neither the queue nor the counter nor
\* what was enqueued and delivered; the producer is then at its `while`,
\* where it can go on and where its next step starts the next get_data if
\* the flag is true and ends the task if not.
C38_NoneNotEnqueued ==
    /\ [](\A i \in DOMAIN queue : queue[i] # NoData)
    /\ [](\A i \in DOMAIN enqueued : enqueued[i] # NoData)
    /\ [](\A i \in DOMAIN delivered : delivered[i] # NoData)
    /\ [](Len(enqueued) + Len(yielded) <= acquired)
    /\ [](updates <= Len(delivered) /\ Len(delivered) <= Len(enqueued))
    /\ [][Len(yielded') > Len(yielded) =>
            UNCHANGED <<queue, enqueued, delivered, updates>>]_vars
    /\ [][(data = NoData /\ ppc \in {"yield", "toput"} /\ ppc' # ppc) =>
            /\ ppc' = "loop"
            /\ UNCHANGED <<queue, enqueued, delivered, updates, ready>>]_vars
    /\ []((main = "Running" /\ ppc = "loop" /\ data = NoData
            /\ (_go_on => acquired < MaxGets)) =>
            ENABLED (ProducerGetData \/ ProducerGetNone))
    /\ [][(ppc = "loop" /\ ppc' # ppc) =>
            IF _go_on THEN acquired' = acquired + 1 ELSE ppc' = "done"]_vars

\* get_data returned None, then a frame, which was enqueued and delivered.
C38_Witness ==
    /\ yielded = <<None>>
    /\ acquired = 2
    /\ Len(enqueued) = 1 /\ enqueued[1].id = 2
    /\ delivered = enqueued
    /\ updates = 1

\* C39: a start() ends with the flag true, the producer in an acquisition
\* and the consumer waiting for a frame, whatever the flag was before it;
\* while the flag is true and no task has failed no task of the run has
\* ended, and the run ends only with the flag false or on a failure; and
\* the flag becomes true in no step but a start().
C39_StopNotLatched ==
    /\ [][(main # "Running" /\ main' = "Running") =>
            /\ _go_on'
            /\ ppc' = "tdiv" /\ Len(yielded') = Len(yielded) + 1
            /\ cpc' = "get"]_vars
    /\ []((main = "Running" /\ _go_on /\ error = "none") =>
            /\ ppc \notin {"done", "cancelled"}
            /\ cpc \notin {"done", "cancelled"}
            /\ mpc \notin {"done", "cancelled"})
    /\ [][(main = "Running" /\ main' # "Running") =>
            ~_go_on \/ error # "none"]_vars
    /\ [][(~_go_on /\ _go_on') =>
            main # "Running" /\ main' = "Running"]_vars

\* stop() was called before the first start(), and the run delivers frames.
C39_Witness ==
    /\ Len(starts) = 1
    /\ ~starts[1].flag
    /\ main = "Running" /\ _go_on
    /\ Len(delivered) = 2

\* The latest start().
LastStart == starts[Len(starts)]

\* C40: a start() leaves the queue empty and the producer with a frame of
\* its own; in a run every frame in the queue, every frame enqueued since
\* the start and every frame handed to the handler since the start was
\* begun by get_data after the start.
C40_RestartIsolation ==
    /\ [][(main # "Running" /\ main' = "Running") =>
            /\ queue' = <<>>
            /\ UNCHANGED <<enqueued, delivered>>
            /\ data'.id = Len(yielded')]_vars
    /\ [](starts # <<>> =>
            /\ \A i \in DOMAIN queue : queue[i].id > LastStart.acq
            /\ \A i \in DOMAIN enqueued :
                  i > LastStart.enq => enqueued[i].id > LastStart.acq
            /\ \A i \in DOMAIN delivered :
                  i > LastStart.del => delivered[i].id > LastStart.acq)

\* A frame was left in the queue by the first run; the second run has
\* delivered a frame.
C40_Witness ==
    /\ Len(starts) = 2
    /\ starts[2].left = 1
    /\ main = "Running"
    /\ Len(delivered) > starts[2].del

=============================================================================
